---- MODULE Spec2Model ----
(***************************************************************************)
(* Model of the SQL migration runner of the bookstore API                  *)
(* (package database: Migrate, runSQLMigrations, executeMigration,         *)
(* GetMigrationStatus, RollbackLastMigration).                             *)
(*                                                                         *)
(* Strings are sequences of byte values, so that the string functions the  *)
(* code uses (HasSuffix, HasPrefix, TrimSuffix, sort.Strings, ==) are      *)
(* computed byte by byte as Go computes them.                              *)
(***************************************************************************)
EXTENDS Integers, Sequences, FiniteSets, TLC

(* ------------------------------ bounds --------------------------------- *)

\* number of migration files NNN.sql in the migrations directory
NumFiles == 3

\* number of operations (migrate, status, rollback) started in a behaviour
MaxOps == 4

\* number of failures (of a statement, a file read, a connect) and panics
\* injected in a behaviour
MaxFaults == 1

\* number of processes that share the database
NumProcs == 2

\* changes of the migrations directory
MaxEdits == 3

\* ids of authors and of categories in use
NumIds == 2

Procs == 1..NumProcs

(* ------------------------- strings of the code ------------------------- *)

\* ".sql"
SqlSuffix == <<46, 115, 113, 108>>

\* "."
DotPrefix == <<46>>

\* "now()", the value executeMigration stores in AppliedAt
NowLiteral == <<110, 111, 119, 40, 41>>

\* "00i.sql"
FileName(i) == <<48, 48, 48 + i>> \o SqlSuffix

\* "README.md"
ReadmeName == <<82, 69, 65, 68, 77, 69, 46, 109, 100>>

\* ".keep.sql", a hidden entry
HiddenName == <<46, 107, 101, 101, 112>> \o SqlSuffix

\* ".sql", an entry whose name is the suffix alone
BareSuffixName == SqlSuffix

\* contents of a migration file: some SQL between line breaks, no byte at
\* all, white space only
SqlText == <<10, 67, 82, 69, 65, 84, 69, 59, 10>>

ZeroBytes == <<>>

WhiteSpaceOnly == <<32, 10, 9>>

\* " x\n": text that is not empty and is no SQL
NotSql == <<32, 120, 10>>

\* the bytes strings.TrimSpace removes
IsSpace(b) == b \in {9, 10, 11, 12, 13, 32}

\* strings.TrimSpace: leading and trailing white space removed
RECURSIVE TrimLeft(_)
TrimLeft(s) ==
    IF s # <<>> /\ IsSpace(Head(s)) THEN TrimLeft(Tail(s)) ELSE s

RECURSIVE TrimRight(_)
TrimRight(s) ==
    IF s # <<>> /\ IsSpace(s[Len(s)]) THEN TrimRight(SubSeq(s, 1, Len(s) - 1)) ELSE s

\* faulty variant of the emptiness test: the content is not trimmed
TrimSpaceMissing(s) == s

\* strings.TrimSpace
TrimSpace(s) == TrimRight(TrimLeft(s))

\* strings.HasSuffix
HasSuffix(s, suffix) ==
    /\ Len(s) >= Len(suffix)
    /\ SubSeq(s, Len(s) - Len(suffix) + 1, Len(s)) = suffix

\* strings.HasPrefix
HasPrefix(s, prefix) ==
    /\ Len(s) >= Len(prefix)
    /\ SubSeq(s, 1, Len(prefix)) = prefix

\* strings.TrimSuffix
TrimSuffix(s, suffix) ==
    IF HasSuffix(s, suffix) THEN SubSeq(s, 1, Len(s) - Len(suffix)) ELSE s

\* Go's < on strings: bytewise lexicographic
RECURSIVE LexLess(_, _)
LexLess(a, b) ==
    IF a = <<>> THEN b # <<>>
    ELSE IF b = <<>> THEN FALSE
    ELSE IF Head(a) = Head(b) THEN LexLess(Tail(a), Tail(b))
    ELSE Head(a) < Head(b)

\* insertion of one string into an ascending slice
RECURSIVE InsertSorted(_, _)
InsertSorted(x, s) ==
    IF s = <<>> THEN <<x>>
    ELSE IF LexLess(Head(s), x) THEN <<Head(s)>> \o InsertSorted(x, Tail(s))
    ELSE <<x>> \o s

\* faulty variant of sort.Strings: the slice is left in listing order
SortStringsMissing(s) == s

\* sort.Strings: ascending bytewise order
\* faulty variant of sort.Strings: descending order
RECURSIVE SortStringsDescending(_)
SortStringsDescending(s) ==
    IF s = <<>> THEN <<>>
    ELSE LET m == CHOOSE i \in 1..Len(s) : \A j \in 1..Len(s) : ~LexLess(s[i], s[j])
         IN  <<s[m]>> \o SortStringsDescending(SubSeq(s, 1, m - 1)
                                                \o SubSeq(s, m + 1, Len(s)))

RECURSIVE SortStrings(_)
SortStrings(s) ==
    IF s = <<>> THEN <<>> ELSE InsertSorted(Head(s), SortStrings(Tail(s)))

\* faulty variant of the filter loop: hidden entries are not left out
RECURSIVE FilterSuffixOnly(_)
FilterSuffixOnly(files) ==
    IF files = <<>> THEN <<>>
    ELSE IF HasSuffix(Head(files), SqlSuffix)
         THEN <<Head(files)>> \o FilterSuffixOnly(Tail(files))
         ELSE FilterSuffixOnly(Tail(files))

\* the filter loop of runSQLMigrations: names ending in ".sql" that do not
\* start with "."
RECURSIVE FilterSQL(_)
FilterSQL(files) ==
    IF files = <<>> THEN <<>>
    ELSE IF HasSuffix(Head(files), SqlSuffix) /\ ~HasPrefix(Head(files), DotPrefix)
         THEN <<Head(files)>> \o FilterSQL(Tail(files))
         ELSE FilterSQL(Tail(files))

\* faulty variant of contains: the ledger versions are compared with the
\* file name, suffix included
containsFileName(slice, item) ==
    \E i \in 1..Len(slice) : slice[i] = item \o SqlSuffix

\* faulty variant of contains: a version counts as applied when some applied
\* version is not smaller (the ledger read as a high-water mark)
containsNotSmaller(slice, item) ==
    \E i \in 1..Len(slice) : ~LexLess(slice[i], item)

\* contains(slice, item)
contains(slice, item) == \E i \in 1..Len(slice) : slice[i] = item

(* ------------------------------ universe ------------------------------- *)

SqlFiles == {FileName(i) : i \in 1..NumFiles}

Versions == {TrimSuffix(f, SqlSuffix) : f \in SqlFiles}

\* the sequences that list every element of S once
Perms(S) ==
    {s \in [1..Cardinality(S) -> S] : \A i, j \in 1..Cardinality(S) : s[i] = s[j] => i = j}

\* orders in which the directory lists the .sql files: ascending, descending,
\* and ascending with the last two exchanged (001, 003, 002)
ListingOrders ==
    { [i \in 1..NumFiles |-> i],
      [i \in 1..NumFiles |-> NumFiles + 1 - i],
      [i \in 1..NumFiles |-> IF i = NumFiles - 1 THEN NumFiles
                              ELSE IF i = NumFiles THEN NumFiles - 1 ELSE i] }

\* directory listings: the .sql files between a hidden entry and a README
\* that the filter has to drop
Listings ==
    {<<HiddenName, BareSuffixName>> \o [i \in 1..NumFiles |-> FileName(o[i])] \o <<ReadmeName>> :
        o \in ListingOrders}

\* every name a directory entry can have
AllNames == SqlFiles \cup {HiddenName, BareSuffixName, ReadmeName}

\* the migration files whose SQL fails once their schema objects exist
\* (CREATE TRIGGER, which has no IF NOT EXISTS): none of them, or all
OnceChoices == {{}, Versions}

\* no program of the repository is running: the package is called directly
LibMain == [prog |-> "lib", call |-> "none"]

NoExit == [prog |-> "none", action |-> "none", status |-> 0, out |-> "none"]

NoTx == [open |-> FALSE, schema |-> "none", rows |-> {}]

NoResult == [op |-> "none", err |-> "nil", version |-> <<>>]


(* -------------------------------- state -------------------------------- *)

VARIABLES
    dirState,           \* "exists", "missing" or "unreadable": the migrations directory
    dirListing,         \* what ioutil.ReadDir returns: directory entries, in some order
    fileContent,        \* per entry name: the bytes ioutil.ReadFile returns
    onceOnly,           \* the versions whose SQL fails once their objects exist
    edits,              \* number of files created or removed so far
    main,               \* the program that is running and the call it is to make
    lastExit,           \* how the last program ended: exit status and output
    validated,          \* history: a ValidateMigrations call has returned nil
    tableExists,        \* the migrations table exists
    ledger,             \* committed rows of the migrations table: [id, version, appliedAt]
    nextId,             \* next value of the SERIAL sequence of migrations.id
    schema,             \* per version: "none", "partial" or "full" -- the committed
                        \* schema objects of that migration file
    pc,                 \* per process: where it is in its operation
    migrationFiles,     \* per process: the sorted slice of runSQLMigrations
    appliedMigrations,  \* per process: the slice read once before the loop
    idx,                \* per process: position of the for loop in migrationFiles
    tx,                 \* per process: the open transaction and what it has staged
    lastMigration,      \* per process: the row RollbackLastMigration has fetched
    result,             \* per process: what its last operation returned
    statusResult,       \* per process: the records GetMigrationStatus returned
    runLog,             \* history, per process: the executeMigration calls of its
                        \* current or last Migrate run, with what each returned
    commitLog,          \* history: versions in the order their transactions committed
    rollbackUsed,       \* history: RollbackLastMigration has deleted a row
    faults,             \* history: number of failures and panics injected so far
    migrateRuns,        \* history: number of Migrate calls that have returned
    ops,                \* number of operations started
    db,                 \* package database: the shared handle, "nil" or "open"
    once,               \* package database: the sync.Once, "new", "running" or "done"
    connects,           \* history: number of Connect calls InitializeDB has made
    authors,            \* table authors, per id: "none", "live" or "deleted"
    categories,         \* table categories, per id: "none", "live" or "deleted"
    books,              \* table books: the rows in the order of their insertion
    req                 \* per process: the service call it is in

fsVars == <<dirState, dirListing, fileContent, onceOnly, edits>>

mainVars == <<main, lastExit>>

dbVars == <<tableExists, ledger, nextId, schema>>

loopVars == <<migrationFiles, appliedMigrations, idx>>

histVars == <<runLog, commitLog, rollbackUsed, faults, migrateRuns>>

vars == <<dirState, dirListing, fileContent, onceOnly, edits, main, lastExit,
          validated, tableExists, ledger, nextId, schema, pc,
          migrationFiles, appliedMigrations, idx, tx, lastMigration, result,
          statusResult, runLog, commitLog, rollbackUsed, faults,
          migrateRuns, ops, db, once, connects, authors, categories, books,
          req>>

connVars == <<db, once, connects>>

storeVars == <<authors, categories, books, req>>

svcVars == <<connVars, storeVars>>

\* ids of authors and of categories; 0 stands for uuid.Nil
Ids == 1..NumIds

\* no service call: op, the book id, the pair of ids to validate, the ids
\* the update supplies, and (history) the non-deleted authors and
\* categories at the time of their check
NoRequest == [op |-> "none", book |-> 0, author |-> 0, category |-> 0,
              updAuthor |-> 0, updCategory |-> 0,
              seenAuthors |-> {}, seenCategories |-> {}]

\* the process has not called InitializeDB, the tables of the store are
\* empty and no service call is under way
SvcIdle ==
    /\ db = "nil"
    /\ once = "new"
    /\ connects = 0
    /\ authors = [i \in Ids |-> "none"]
    /\ categories = [i \in Ids |-> "none"]
    /\ books = <<>>
    /\ req = [p \in Procs |-> NoRequest]

\* a fresh database, a directory in one of its three conditions, every
\* process between operations
Init ==
    /\ SvcIdle
    /\ dirState \in {"exists", "missing", "unreadable"}
    /\ dirListing \in Listings
    /\ fileContent = [f \in AllNames |-> SqlText]
    /\ onceOnly \in OnceChoices
    /\ edits = 0
    /\ main = LibMain
    /\ lastExit = NoExit
    /\ validated = FALSE
    /\ tableExists = FALSE
    /\ ledger = {}
    /\ nextId = 1
    /\ schema = [v \in Versions |-> "none"]
    /\ pc = [p \in Procs |-> "idle"]
    /\ migrationFiles = [p \in Procs |-> <<>>]
    /\ appliedMigrations = [p \in Procs |-> <<>>]
    /\ idx = [p \in Procs |-> 0]
    /\ tx = [p \in Procs |-> NoTx]
    /\ lastMigration = [p \in Procs |-> 0]
    /\ result = [p \in Procs |-> NoResult]
    /\ statusResult = [p \in Procs |-> <<>>]
    /\ runLog = [p \in Procs |-> <<>>]
    /\ commitLog = <<>>
    /\ rollbackUsed = FALSE
    /\ faults = 0
    /\ migrateRuns = 0
    /\ ops = 0

\* the outcomes a step may take: any of S while a fault may still be
\* injected, afterwards only success
Outcomes(S) == IF faults < MaxFaults THEN S ELSE {"ok"}

\* process p is at a call of op: the package is used directly, or the
\* running program has reached that call
MayCall(p, op) ==
    IF main.prog = "lib" THEN TRUE
    ELSE main.call = op /\ result[p] = NoResult

(* ------------------------- database operators -------------------------- *)

\* the versions of a set of rows, as a slice (in id order; the code only
\* searches the slice)
RECURSIVE VersionsOf(_)
VersionsOf(rows) ==
    IF rows = {} THEN <<>>
    ELSE LET r == CHOOSE x \in rows : \A y \in rows : x.id <= y.id
         IN  <<r.version>> \o VersionsOf(rows \ {r})

\* "does not exist", the text getAppliedMigrations looks for in an error
DoesNotExist ==
    <<100, 111, 101, 115, 32, 110, 111, 116, 32, 101, 120, 105, 115, 116>>

\* the server's message when the migrations table is missing:
\* relation "migrations" does not exist
MsgRelationMissing ==
    <<114, 101, 108, 97, 116, 105, 111, 110, 32, 34, 109, 105, 103, 114,
      97, 116, 105, 111, 110, 115, 34, 32, 100, 111, 101, 115, 32, 110,
      111, 116, 32, 101, 120, 105, 115, 116>>

\* the server's message when a cached statement is gone, as behind a
\* connection pooler: prepared statement "stmtcache_1" does not exist
MsgStatementMissing ==
    <<112, 114, 101, 112, 97, 114, 101, 100, 32, 115, 116, 97, 116, 101,
      109, 101, 110, 116, 32, 34, 115, 116, 109, 116, 99, 97, 99, 104, 101,
      95, 49, 34, 32, 100, 111, 101, 115, 32, 110, 111, 116, 32, 101, 120,
      105, 115, 116>>

\* a failure of the connection: connection reset by peer
MsgConnReset ==
    <<99, 111, 110, 110, 101, 99, 116, 105, 111, 110, 32, 114, 101, 115,
      101, 116, 32, 98, 121, 32, 112, 101, 101, 114>>

\* the error of a query that did not fail
NoError == <<>>

\* strings.Contains
Contains(s, substr) ==
    \E i \in 0..(Len(s) - Len(substr)) : SubSeq(s, i + 1, i + Len(substr)) = substr

\* the error of db.Find(&records): the failure of the statement if it has
\* one, otherwise the missing table if it is missing
FindError(table, failure) ==
    IF failure # NoError THEN failure
    ELSE IF ~table THEN MsgRelationMissing
    ELSE NoError

\* getAppliedMigrations: an error of Find whose message contains "does not
\* exist" is an empty list, any other error is returned
getAppliedMigrations(table, rows, failure) ==
    IF FindError(table, failure) = NoError
    THEN [err |-> "nil", versions |-> VersionsOf(rows)]
    ELSE IF Contains(FindError(table, failure), DoesNotExist)
    THEN [err |-> "nil", versions |-> <<>>]
    ELSE [err |-> "appliedQuery", versions |-> <<>>]

\* faulty variant of the status query: First instead of Find, one row at most
OrderByAppliedAtAscFirst(rows) ==
    IF rows = {} THEN {<<>>} ELSE {<<r>> : r \in rows}

\* db.Order("applied_at ASC").Find: every row, in an order that ascends in
\* applied_at (rows with equal applied_at come in any order)
OrderByAppliedAtAsc(rows) ==
    {s \in Perms(rows) :
        \A i, j \in 1..Len(s) : i < j => ~LexLess(s[j].appliedAt, s[i].appliedAt)}

\* db.Order("applied_at DESC").First: gorm's First appends the primary key
\* to the ordering, so among the rows with the greatest applied_at it is the
\* one with the smallest id
FirstByAppliedAtDesc(rows) ==
    CHOOSE r \in rows :
        \A q \in rows \ {r} :
            \/ LexLess(q.appliedAt, r.appliedAt)
            \/ (q.appliedAt = r.appliedAt /\ r.id < q.id)

\* faulty variant of tx.Exec: db.Exec, outside the transaction
DbExec(sch, t, v, staged) ==
    [schema |-> [sch EXCEPT ![v] = staged], tx |-> t]

\* tx.Exec(content): the statements run inside the transaction
TxExec(sch, t, v, staged) ==
    [schema |-> sch, tx |-> [t EXCEPT !.schema = staged]]

\* faulty variant of the migrations table: version has no unique index
NoUniqueIndex(rows, v) == FALSE

\* the unique index on migrations.version ("version VARCHAR(255) UNIQUE NOT
\* NULL"): an insert of version v fails when a committed row has it
UniqueViolation(rows, v) == \E r \in rows : r.version = v

\* faulty variant of tx.Create: db.Create, outside the transaction
DbCreate(rows, t, rec) ==
    [ledger |-> rows \cup {rec}, tx |-> t]

\* tx.Create(&record): the ledger row is inserted inside the transaction
TxCreate(rows, t, rec) ==
    [ledger |-> rows, tx |-> [t EXCEPT !.rows = @ \cup {rec}]]

\* tx.Commit(): what the transaction staged becomes visible, all at once
TxCommit(sch, rows, t, v) ==
    [schema |-> [sch EXCEPT ![v] = t.schema], ledger |-> rows \cup t.rows]

\* faulty variant of db.Delete(&lastMigration): the rows are matched on
\* applied_at instead of the primary key
DeleteByAppliedAt(rows, rec) == {r \in rows : r.appliedAt # rec.appliedAt}

\* db.Delete(&lastMigration): DELETE ... WHERE id = lastMigration.ID
DeleteById(rows, rec) == {r \in rows : r.id # rec.id}

(* --------------------------- Migrate: start ---------------------------- *)

\* faulty variant of Migrate: the migrations table is not created
createMigrationTableMissing(table, o) ==
    [err |-> "nil", table |-> table]

\* createMigrationTable: CREATE TABLE IF NOT EXISTS migrations.  The
\* statement fails (o) or the table exists afterwards; rows are not touched.
createMigrationTable(table, o) ==
    IF o = "createTable" THEN [err |-> "createTable", table |-> table]
    ELSE [err |-> "nil", table |-> TRUE]

\* faulty variant of the test of the directory: a directory that cannot be
\* read counts as one without migrations
StatDirLenient(state) ==
    IF state = "exists" THEN "read" ELSE "nil"

\* faulty variant of the test of the directory: a missing directory is an
\* error of ReadDir
StatDirRequired(state) ==
    IF state = "exists" THEN "read" ELSE "readDir"

\* os.Stat and ReadDir of "migrations": a directory that does not exist ends
\* the function with nil, one that cannot be read with an error
StatMigrationsDir(state) ==
    IF state = "missing" THEN "nil"
    ELSE IF state = "unreadable" THEN "readDir"
    ELSE "read"

\* the message of the failure o of the query for the applied versions
QueryFailure(o) ==
    IF o = "appliedQuery" THEN MsgConnReset
    ELSE IF o = "appliedQueryStale" THEN MsgStatementMissing
    ELSE NoError

\* Migrate up to the for loop of runSQLMigrations: Connect,
\* createMigrationTable, os.Stat, ReadDir, filter, sort, getAppliedMigrations.
\* o is the statement that fails, if any.
MigrateStart(o) ==
    IF o = "connect"
    THEN [done |-> TRUE, err |-> "connect", table |-> tableExists,
          files |-> <<>>, applied |-> <<>>]
    ELSE IF createMigrationTable(tableExists, o).err # "nil"
    THEN [done |-> TRUE, err |-> createMigrationTable(tableExists, o).err,
          table |-> createMigrationTable(tableExists, o).table,
          files |-> <<>>, applied |-> <<>>]
    ELSE IF StatMigrationsDir(dirState) # "read"
    THEN [done |-> TRUE, err |-> StatMigrationsDir(dirState),
          table |-> createMigrationTable(tableExists, o).table,
          files |-> <<>>, applied |-> <<>>]
    ELSE LET files == SortStrings(FilterSQL(dirListing))
             table == createMigrationTable(tableExists, o).table
             am == getAppliedMigrations(table, ledger, QueryFailure(o))
         IN  IF am.err # "nil"
             THEN [done |-> TRUE, err |-> am.err, table |-> table,
                   files |-> <<>>, applied |-> <<>>]
             ELSE [done |-> FALSE, err |-> "nil", table |-> table,
                   files |-> files, applied |-> am.versions]

MigrateCall(p, S) ==
    /\ pc[p] = "idle"
    /\ ops < MaxOps
    /\ MayCall(p, "migrate")
    /\ \E o \in Outcomes(S) :
        LET s == MigrateStart(o)
        IN  /\ tableExists' = s.table
            /\ migrationFiles' = [migrationFiles EXCEPT ![p] = s.files]
            /\ appliedMigrations' = [appliedMigrations EXCEPT ![p] = s.applied]
            /\ idx' = [idx EXCEPT ![p] = IF s.done THEN 0 ELSE 1]
            /\ pc' = [pc EXCEPT ![p] = IF s.done THEN "idle" ELSE "loop"]
            /\ result' = [result EXCEPT ![p] =
                            IF s.done
                            THEN [op |-> "migrate", err |-> s.err, version |-> <<>>]
                            ELSE NoResult]
            /\ migrateRuns' = IF s.done THEN migrateRuns + 1 ELSE migrateRuns
            /\ faults' = IF o = "ok" THEN faults ELSE faults + 1
    /\ runLog' = [runLog EXCEPT ![p] = <<>>]
    /\ statusResult' = [statusResult EXCEPT ![p] = <<>>]
    /\ ops' = ops + 1
    /\ UNCHANGED <<fsVars, mainVars, validated, ledger, nextId, schema, tx, lastMigration,
                   commitLog, rollbackUsed>>
    /\ UNCHANGED svcVars

\* Migrate on a database whose statements fail, if they do, with a lost
\* connection
Migrate(p) == MigrateCall(p, {"ok", "connect", "createTable", "appliedQuery"})

\* Migrate on a database behind a connection pooler, where the query for the
\* applied versions can fail on a statement the server no longer has
MigrateBehindPooler(p) == MigrateCall(p, {"ok", "appliedQueryStale"})

(* ---------------------- Migrate: the for loop --------------------------- *)

\* the version the loop of process p is at
CurVersion(p) == TrimSuffix(migrationFiles[p][idx[p]], SqlSuffix)

\* faulty variant of executeMigration: a failed insert of the ledger row is
\* not returned, so the loop skips to the next file
ExecuteMigrationReturnSkipsDuplicate(outcome) ==
    IF outcome \in {"ok", "panic", "record"} THEN "nil" ELSE "err"

\* what executeMigration returns to runSQLMigrations.  The deferred function
\* recovers a panic and rolls back, but the function has an unnamed result,
\* so after a recovered panic it returns the zero value: nil.
ExecuteMigrationReturn(outcome) ==
    IF outcome \in {"ok", "panic"} THEN "nil" ELSE "err"

\* runSQLMigrations returns err to Migrate, which returns it to its caller
MigrateReturn(p, err, v) ==
    /\ pc' = [pc EXCEPT ![p] = "idle"]
    /\ result' = [result EXCEPT ![p] = [op |-> "migrate", err |-> err, version |-> v]]
    /\ migrationFiles' = [migrationFiles EXCEPT ![p] = <<>>]
    /\ appliedMigrations' = [appliedMigrations EXCEPT ![p] = <<>>]
    /\ idx' = [idx EXCEPT ![p] = 0]
    /\ migrateRuns' = migrateRuns + 1

\* executeMigration(version) returns: on an error runSQLMigrations returns
\* it, otherwise the loop goes on to the next file
AfterExecute(p, v, outcome) ==
    /\ runLog' = [runLog EXCEPT ![p] =
                    Append(@, [version |-> v, outcome |-> outcome,
                               returned |-> ExecuteMigrationReturn(outcome)])]
    /\ IF ExecuteMigrationReturn(outcome) = "err"
       THEN MigrateReturn(p, outcome, v)
       ELSE /\ pc' = [pc EXCEPT ![p] = "loop"]
            /\ idx' = [idx EXCEPT ![p] = @ + 1]
            /\ UNCHANGED <<result, migrationFiles, appliedMigrations, migrateRuns>>

\* one iteration of the for loop up to db.Begin(), or the return after the
\* last file
LoopStep(p) ==
    /\ pc[p] = "loop"
    /\ IF idx[p] > Len(migrationFiles[p])
       THEN /\ MigrateReturn(p, "nil", <<>>)
            /\ UNCHANGED <<tx, runLog, faults>>
       ELSE IF contains(appliedMigrations[p], CurVersion(p))
       THEN /\ idx' = [idx EXCEPT ![p] = @ + 1]
            /\ UNCHANGED <<pc, result, migrationFiles, appliedMigrations,
                           migrateRuns, tx, runLog, faults>>
       ELSE \E o \in Outcomes({"ok", "readFile", "begin"}) :
            /\ faults' = IF o = "ok" THEN faults ELSE faults + 1
            /\ IF o = "readFile"
               THEN /\ MigrateReturn(p, "readFile", CurVersion(p))
                    /\ UNCHANGED <<tx, runLog>>
               ELSE IF o = "begin"
               THEN /\ AfterExecute(p, CurVersion(p), "begin")
                    /\ UNCHANGED tx
               ELSE /\ tx' = [tx EXCEPT ![p] = [NoTx EXCEPT !.open = TRUE]]
                    /\ pc' = [pc EXCEPT ![p] = "exec"]
                    /\ UNCHANGED <<result, migrationFiles, appliedMigrations,
                                   idx, migrateRuns, runLog>>
    /\ UNCHANGED <<fsVars, mainVars, validated, dbVars, lastMigration, statusResult, commitLog, rollbackUsed, ops>>
    /\ UNCHANGED svcVars

\* faulty variant of tx.Exec: every file can be run again on its own objects
ExecOutcomeIdempotent(sch, single, v, content, o) == o

\* what tx.Exec(content) of version v does when nothing else fails (o): the
\* SQL of a once-only file fails on the objects that exist already, text
\* that is no SQL is a syntax error, and an empty statement is no error
ExecOutcome(sch, single, v, content, o) ==
    IF o = "ok" /\ (content = NotSql \/ (sch[v] = "full" /\ v \in single))
    THEN "exec" ELSE o

\* executeMigration: tx.Exec(content).  A failing file may have run some of
\* its statements before the one that fails.
ExecSQL(p) ==
    /\ pc[p] = "exec"
    /\ \E o \in Outcomes({"ok", "exec", "panic"}) :
        LET v == CurVersion(p)
            out == ExecOutcome(schema, onceOnly, v,
                               fileContent[migrationFiles[p][idx[p]]], o)
            eff == TxExec(schema, tx[p], v, IF out = "ok" THEN "full" ELSE "partial")
        IN  /\ schema' = eff.schema
            /\ faults' = IF o = "ok" THEN faults ELSE faults + 1
            /\ IF out = "ok"
               THEN /\ tx' = [tx EXCEPT ![p] = eff.tx]
                    /\ pc' = [pc EXCEPT ![p] = "create"]
                    /\ UNCHANGED <<result, migrationFiles, appliedMigrations,
                                   idx, migrateRuns, runLog>>
               ELSE /\ tx' = [tx EXCEPT ![p] = NoTx]
                    /\ AfterExecute(p, v, out)
    /\ UNCHANGED <<fsVars, mainVars, validated, tableExists, ledger, nextId, lastMigration,
                   statusResult, commitLog, rollbackUsed, ops>>
    /\ UNCHANGED svcVars

\* executeMigration: tx.Create(&record).  The insert waits while another
\* transaction holds an uncommitted row of the same version, and fails on the
\* unique index when a committed row of that version exists.
CreateRecord(p) ==
    /\ pc[p] = "create"
    /\ \A q \in Procs \ {p} : \A r \in tx[q].rows : r.version # CurVersion(p)
    /\ \E o \in Outcomes({"ok", "record", "panic"}) :
        LET v == CurVersion(p)
            rec == [id |-> nextId, version |-> v, appliedAt |-> NowLiteral]
            out == IF o = "ok" /\ UniqueViolation(ledger, v)
                   THEN "record" ELSE o
            eff == TxCreate(ledger, tx[p], rec)
        IN  /\ faults' = IF o = "ok" THEN faults ELSE faults + 1
            /\ IF out = "ok"
               THEN /\ ledger' = eff.ledger
                    /\ tx' = [tx EXCEPT ![p] = eff.tx]
                    /\ pc' = [pc EXCEPT ![p] = "commit"]
                    /\ UNCHANGED <<result, migrationFiles, appliedMigrations,
                                   idx, migrateRuns, runLog>>
               ELSE /\ ledger' = ledger
                    /\ tx' = [tx EXCEPT ![p] = NoTx]
                    /\ AfterExecute(p, v, out)
    /\ nextId' = nextId + 1
    /\ UNCHANGED <<fsVars, mainVars, validated, tableExists, schema, lastMigration, statusResult,
                   commitLog, rollbackUsed, ops>>
    /\ UNCHANGED svcVars

\* executeMigration: return tx.Commit().Error
Commit(p) ==
    /\ pc[p] = "commit"
    /\ \E o \in Outcomes({"ok", "commit"}) :
        LET v == CurVersion(p)
            eff == TxCommit(schema, ledger, tx[p], v)
        IN  /\ faults' = IF o = "ok" THEN faults ELSE faults + 1
            /\ schema' = IF o = "ok" THEN eff.schema ELSE schema
            /\ ledger' = IF o = "ok" THEN eff.ledger ELSE ledger
            /\ commitLog' = IF o = "ok" THEN Append(commitLog, v) ELSE commitLog
            /\ tx' = [tx EXCEPT ![p] = NoTx]
            /\ AfterExecute(p, v, o)
    /\ UNCHANGED <<fsVars, mainVars, validated, tableExists, nextId, lastMigration, statusResult,
                   rollbackUsed, ops>>
    /\ UNCHANGED svcVars

(* ------------------------ status and rollback -------------------------- *)

\* GetMigrationStatus: Connect, then one ordered query
GetMigrationStatus(p) ==
    /\ pc[p] = "idle"
    /\ ops < MaxOps
    /\ MayCall(p, "status")
    /\ \E o \in Outcomes({"ok", "connect", "statusQuery"}) :
        LET err == IF o = "ok" /\ ~tableExists THEN "statusQuery" ELSE o
        IN  /\ faults' = IF o = "ok" THEN faults ELSE faults + 1
            /\ result' = [result EXCEPT ![p] =
                            [op |-> "status", err |-> IF err = "ok" THEN "nil" ELSE err,
                             version |-> <<>>]]
            /\ IF err = "ok"
               THEN \E s \in OrderByAppliedAtAsc(ledger) :
                        statusResult' = [statusResult EXCEPT ![p] = s]
               ELSE statusResult' = [statusResult EXCEPT ![p] = <<>>]
    /\ ops' = ops + 1
    /\ UNCHANGED <<fsVars, mainVars, validated, dbVars, pc, loopVars, tx, lastMigration, runLog,
                   commitLog, rollbackUsed, migrateRuns>>
    /\ UNCHANGED svcVars

\* faulty variant of the error handling of RollbackLastMigration: a missing
\* table is taken for a table without rows
LastMigrationQueryLenient(table, rows, o) ==
    IF o # "ok" THEN o
    ELSE IF ~table \/ rows = {} THEN "noMigrations"
    ELSE "ok"

\* faulty variant of the error handling of RollbackLastMigration: the
\* comparison with gorm.ErrRecordNotFound is missing
LastMigrationQueryNoCase(table, rows, o) ==
    IF o # "ok" THEN o
    ELSE IF ~table \/ rows = {} THEN "lastQuery"
    ELSE "ok"

\* the error handling of RollbackLastMigration after Connect and First:
\* gorm.ErrRecordNotFound is "no migrations to rollback", every other error
\* (a missing table among them) is "failed to get last migration"
LastMigrationQuery(table, rows, o) ==
    IF o # "ok" THEN o
    ELSE IF ~table THEN "lastQuery"
    ELSE IF rows = {} THEN "noMigrations"
    ELSE "ok"

\* RollbackLastMigration up to the query for the last migration
RollbackLastMigration(p) ==
    /\ pc[p] = "idle"
    /\ ops < MaxOps
    /\ MayCall(p, "rollback")
    /\ \E o \in Outcomes({"ok", "connect", "lastQuery"}) :
        LET err == LastMigrationQuery(tableExists, ledger, o)
        IN  /\ faults' = IF o = "ok" THEN faults ELSE faults + 1
            /\ IF err = "ok"
               THEN /\ lastMigration' = [lastMigration EXCEPT ![p] =
                                            FirstByAppliedAtDesc(ledger)]
                    /\ pc' = [pc EXCEPT ![p] = "delete"]
                    /\ result' = [result EXCEPT ![p] = NoResult]
               ELSE /\ result' = [result EXCEPT ![p] =
                                    [op |-> "rollback", err |-> err, version |-> <<>>]]
                    /\ UNCHANGED <<lastMigration, pc>>
    /\ statusResult' = [statusResult EXCEPT ![p] = <<>>]
    /\ ops' = ops + 1
    /\ UNCHANGED <<fsVars, mainVars, validated, dbVars, loopVars, tx, runLog, commitLog,
                   rollbackUsed, migrateRuns>>
    /\ UNCHANGED svcVars

\* RollbackLastMigration: db.Delete(&lastMigration) and the return
RollbackDelete(p) ==
    /\ pc[p] = "delete"
    /\ \E o \in Outcomes({"ok", "delete"}) :
        /\ faults' = IF o = "ok" THEN faults ELSE faults + 1
        /\ ledger' = IF o = "ok" THEN DeleteById(ledger, lastMigration[p]) ELSE ledger
        /\ rollbackUsed' = (rollbackUsed \/ o = "ok")
        /\ result' = [result EXCEPT ![p] =
                        [op |-> "rollback", err |-> IF o = "ok" THEN "nil" ELSE o,
                         version |-> lastMigration[p].version]]
    /\ pc' = [pc EXCEPT ![p] = "idle"]
    /\ lastMigration' = [lastMigration EXCEPT ![p] = 0]
    /\ UNCHANGED <<fsVars, mainVars, validated, tableExists, nextId, schema, loopVars, tx,
                   statusResult, runLog, commitLog, migrateRuns, ops>>
    /\ UNCHANGED svcVars

(* ------------------------------ validate ------------------------------- *)

\* the loop of ValidateMigrations over the directory entries, in the order
\* of the listing: the first selected file that cannot be read or that is
\* empty after TrimSpace ends it with an error that names the file
RECURSIVE ValidateFiles(_, _, _)
ValidateFiles(files, content, readFails) ==
    IF files = <<>> THEN [err |-> "nil", version |-> <<>>]
    ELSE IF HasSuffix(Head(files), SqlSuffix) /\ ~HasPrefix(Head(files), DotPrefix)
    THEN IF readFails THEN [err |-> "readFile", version |-> Head(files)]
         ELSE IF Len(TrimSpace(content[Head(files)])) = 0
         THEN [err |-> "empty", version |-> Head(files)]
         ELSE ValidateFiles(Tail(files), content, FALSE)
    ELSE ValidateFiles(Tail(files), content, readFails)

\* ValidateMigrations: os.Stat, ReadDir, then the loop; no database is used
ValidateMigrations(p) ==
    /\ pc[p] = "idle"
    /\ ops < MaxOps
    /\ MayCall(p, "validate")
    /\ \E o \in Outcomes({"ok", "readFile"}) :
        LET r == IF StatMigrationsDir(dirState) # "read"
                 THEN [err |-> StatMigrationsDir(dirState), version |-> <<>>]
                 ELSE ValidateFiles(dirListing, fileContent, o = "readFile")
        IN  /\ result' = [result EXCEPT ![p] =
                            [op |-> "validate", err |-> r.err, version |-> r.version]]
            /\ validated' = (validated \/ r.err = "nil")
            /\ faults' = IF o = "ok" THEN faults ELSE faults + 1
    /\ statusResult' = [statusResult EXCEPT ![p] = <<>>]
    /\ ops' = ops + 1
    /\ UNCHANGED <<fsVars, mainVars, dbVars, pc, loopVars, tx, lastMigration,
                   runLog, commitLog, rollbackUsed, migrateRuns>>
    /\ UNCHANGED svcVars

(* ------------------------ the two entry points ------------------------- *)

\* no program is running
Shell == [prog |-> "shell", call |-> "none"]

\* values of the -action flag: the four actions and one that is none of them
CliActions == {"migrate", "status", "rollback", "validate", "bogus"}

\* faulty variant of the error handling of the CLI: "no migrations to
\* rollback" is not treated as a failure
CliExitRollbackLenient(action, res, listing) ==
    [prog |-> "cli", action |-> action,
     status |-> IF res.err \in {"nil", "noMigrations"} THEN 0 ELSE 1,
     out |-> IF res.err \in {"nil", "noMigrations"} THEN "completed" ELSE "fatal"]

\* how the CLI ends after the call of its action returned res: log.Fatalf
\* (exit status 1) on an error, otherwise the confirmation of the action and
\* the end of main (exit status 0)
CliExit(action, res, listing) ==
    [prog |-> "cli", action |-> action,
     status |-> IF res.err = "nil" THEN 0 ELSE 1,
     out |-> IF res.err # "nil" THEN "fatal"
             ELSE IF action = "migrate" THEN "Migrations completed successfully"
             ELSE IF action = "rollback" THEN "Rollback completed successfully"
             ELSE IF action = "validate" THEN "All migration files are valid"
             ELSE IF listing = <<>> THEN "No migrations applied"
             ELSE "Applied migrations"]

\* cmd/migrate is started with -action a: an unknown action prints the
\* usage and exits with 1, any other action calls its function
CliStart(a) ==
    /\ main = Shell
    /\ ops < MaxOps
    /\ IF a \in {"migrate", "status", "rollback", "validate"}
       THEN /\ main' = [prog |-> "cli", call |-> a]
            /\ lastExit' = NoExit
       ELSE /\ lastExit' = [prog |-> "cli", action |-> a, status |-> 1,
                            out |-> "Unknown action"]
            /\ UNCHANGED main
    /\ result' = [result EXCEPT ![1] = NoResult]
    /\ UNCHANGED <<fsVars, validated, dbVars, pc, loopVars, tx, lastMigration,
                   statusResult, histVars, ops>>
    /\ UNCHANGED svcVars

\* the call of the CLI's action has returned: the process ends
CliReturn ==
    /\ main.prog = "cli"
    /\ pc[1] = "idle"
    /\ result[1].op = main.call
    /\ lastExit' = CliExit(main.call, result[1], statusResult[1])
    /\ main' = Shell
    /\ result' = [result EXCEPT ![1] = NoResult]
    /\ statusResult' = [statusResult EXCEPT ![1] = <<>>]
    /\ runLog' = [runLog EXCEPT ![1] = <<>>]
    /\ UNCHANGED <<fsVars, validated, dbVars, pc, loopVars, tx, lastMigration,
                   commitLog, rollbackUsed, faults, migrateRuns, ops>>
    /\ UNCHANGED svcVars

\* the server is started: InitializeDB, whose failure is fatal, then the
\* call of ValidateMigrations
ServerStart ==
    /\ main = Shell
    /\ ops + 3 <= MaxOps
    /\ \E o \in Outcomes({"ok", "connect"}) :
        /\ faults' = IF o = "ok" THEN faults ELSE faults + 1
        /\ IF o = "ok"
           THEN /\ main' = [prog |-> "server", call |-> "validate"]
                /\ lastExit' = NoExit
           ELSE /\ lastExit' = [prog |-> "server", action |-> "initialize",
                                status |-> 1, out |-> "fatal"]
                /\ UNCHANGED main
    /\ result' = [result EXCEPT ![1] = NoResult]
    /\ UNCHANGED <<fsVars, validated, dbVars, pc, loopVars, tx, lastMigration,
                   statusResult, runLog, commitLog, rollbackUsed, migrateRuns, ops>>
    /\ UNCHANGED svcVars

\* faulty variant of the server's main: a failed validation is logged and
\* the migrations are run all the same
ServerAfterValidationWarns(call, err) ==
    IF call = "validate" THEN "migrate"
    ELSE IF call = "migrate" THEN (IF err # "nil" THEN "fatal" ELSE "status")
    ELSE "serve"

\* what the server's main does after call has returned err: it ends in
\* log.Fatalf, goes on to its next call, or starts the HTTP and gRPC servers
ServerAfter(call, err) ==
    IF call = "validate" THEN (IF err # "nil" THEN "fatal" ELSE "migrate")
    ELSE IF call = "migrate" THEN (IF err # "nil" THEN "fatal" ELSE "status")
    ELSE "serve"

\* the server after a call returned: a failure of ValidateMigrations or of
\* Migrate is fatal, a failure of GetMigrationStatus is a warning; the
\* order is validate, migrate, status, and then the server serves
ServerStep ==
    /\ main.prog = "server"
    /\ pc[1] = "idle"
    /\ result[1].op = main.call
    /\ IF ServerAfter(main.call, result[1].err) = "fatal"
       THEN /\ lastExit' = [prog |-> "server", action |-> main.call,
                            status |-> 1, out |-> "fatal"]
            /\ main' = Shell
       ELSE IF ServerAfter(main.call, result[1].err) = "serve"
       THEN /\ lastExit' = [prog |-> "server", action |-> "serve",
                            status |-> 0, out |-> "serving"]
            /\ main' = Shell
       ELSE /\ main' = [main EXCEPT !.call = ServerAfter(main.call, result[1].err)]
            /\ UNCHANGED lastExit
    /\ result' = [result EXCEPT ![1] = NoResult]
    /\ statusResult' = [statusResult EXCEPT ![1] = <<>>]
    /\ runLog' = [runLog EXCEPT ![1] = <<>>]
    /\ UNCHANGED <<fsVars, validated, dbVars, pc, loopVars, tx, lastMigration,
                   commitLog, rollbackUsed, faults, migrateRuns, ops>>
    /\ UNCHANGED svcVars

(* ------------------- changes of the migrations directory ---------------- *)

\* a migration file is deleted from the directory between two runs
RemoveFile(f) ==
    /\ pc[1] = "idle"
    /\ dirState = "exists"
    /\ edits < MaxEdits
    /\ \E i \in 1..Len(dirListing) : dirListing[i] = f
    /\ dirListing' = SelectSeq(dirListing, LAMBDA x : x # f)
    /\ edits' = edits + 1
    /\ UNCHANGED <<dirState, fileContent, onceOnly, mainVars, validated, dbVars,
                   pc, loopVars, tx, lastMigration, result, statusResult,
                   histVars, ops>>
    /\ UNCHANGED svcVars

\* a migration file is added to the directory between two runs
AddFile(f) ==
    /\ pc[1] = "idle"
    /\ dirState = "exists"
    /\ edits < MaxEdits
    /\ \A i \in 1..Len(dirListing) : dirListing[i] # f
    /\ dirListing' = Append(dirListing, f)
    /\ edits' = edits + 1
    /\ UNCHANGED <<dirState, fileContent, onceOnly, mainVars, validated, dbVars,
                   pc, loopVars, tx, lastMigration, result, statusResult,
                   histVars, ops>>
    /\ UNCHANGED svcVars

(* ---------------------------- specification ---------------------------- *)

\* one process at a time uses the database: the server at startup, or one
\* invocation of the command line tool after the other
Next ==
    \/ Migrate(1)
    \/ LoopStep(1)
    \/ ExecSQL(1)
    \/ CreateRecord(1)
    \/ Commit(1)
    \/ GetMigrationStatus(1)
    \/ RollbackLastMigration(1)
    \/ RollbackDelete(1)

Spec == Init /\ [][Next]_vars

\* the goroutine that called Migrate keeps running and every statement it
\* sends to the database returns: a step of the run that can be taken is
\* taken
Running ==
    /\ WF_vars(LoopStep(1))
    /\ WF_vars(ExecSQL(1))
    /\ WF_vars(CreateRecord(1))
    /\ WF_vars(Commit(1))

SpecLive == Init /\ [][Next]_vars /\ Running

\* what a migration file can hold: statements, nothing, white space only,
\* or text that is no SQL
Contents == {SqlText, ZeroBytes, WhiteSpaceOnly, NotSql}

\* the programs of the repository on a fresh database: the directory is in
\* one of its three conditions and at most one of its entries has no
\* statement in it
InitEntry ==
    /\ SvcIdle
    /\ dirState \in {"exists", "missing", "unreadable"}
    /\ dirListing \in Listings
    /\ dirListing = SortStrings(dirListing)
    /\ fileContent \in {[f \in AllNames |-> IF f = b THEN c ELSE SqlText] :
                            b \in AllNames, c \in Contents}
    /\ dirState # "exists" => fileContent = [f \in AllNames |-> SqlText]
    /\ onceOnly = {}
    /\ edits = 0
    /\ main = Shell
    /\ lastExit = NoExit
    /\ validated = FALSE
    /\ tableExists = FALSE
    /\ ledger = {}
    /\ nextId = 1
    /\ schema = [v \in Versions |-> "none"]
    /\ pc = [p \in Procs |-> "idle"]
    /\ migrationFiles = [p \in Procs |-> <<>>]
    /\ appliedMigrations = [p \in Procs |-> <<>>]
    /\ idx = [p \in Procs |-> 0]
    /\ tx = [p \in Procs |-> NoTx]
    /\ lastMigration = [p \in Procs |-> 0]
    /\ result = [p \in Procs |-> NoResult]
    /\ statusResult = [p \in Procs |-> <<>>]
    /\ runLog = [p \in Procs |-> <<>>]
    /\ commitLog = <<>>
    /\ rollbackUsed = FALSE
    /\ faults = 0
    /\ migrateRuns = 0
    /\ ops = 0

NextEntry ==
    \/ \E a \in CliActions : CliStart(a)
    \/ CliReturn
    \/ ServerStart
    \/ ServerStep
    \/ ValidateMigrations(1)
    \/ Migrate(1)
    \/ LoopStep(1)
    \/ ExecSQL(1)
    \/ CreateRecord(1)
    \/ Commit(1)
    \/ GetMigrationStatus(1)
    \/ RollbackLastMigration(1)
    \/ RollbackDelete(1)

SpecEntry == InitEntry /\ [][NextEntry]_vars

\* the package used directly while migration files come and go: the
\* directory exists, every file holds statements that can be run again, and
\* no further fault occurs
InitFiles ==
    /\ Init
    /\ dirState = "exists"
    /\ dirListing = SortStrings(dirListing)
    /\ onceOnly = {}

NextFiles ==
    \/ \E f \in SqlFiles : RemoveFile(f)
    \/ \E f \in SqlFiles : AddFile(f)
    \/ Migrate(1)
    \/ LoopStep(1)
    \/ ExecSQL(1)
    \/ CreateRecord(1)
    \/ Commit(1)

SpecFiles == InitFiles /\ [][NextFiles]_vars

\* the ledger after the first k migration files were applied in order
AppliedUpTo(k) ==
    {[id |-> i, version |-> TrimSuffix(FileName(i), SqlSuffix),
      appliedAt |-> NowLiteral] : i \in 1..k}

\* the package is used on a database on which earlier runs have applied
\* the first k files; the directory exists
InitApplied ==
    /\ SvcIdle
    /\ dirState = "exists"
    /\ dirListing \in Listings
    /\ dirListing = SortStrings(dirListing)
    /\ fileContent = [f \in AllNames |-> SqlText]
    /\ onceOnly = {}
    /\ edits = 0
    /\ main = LibMain
    /\ lastExit = NoExit
    /\ validated = FALSE
    /\ \E k \in 0..NumFiles :
        /\ tableExists = (k > 0)
        /\ ledger = AppliedUpTo(k)
        /\ nextId = k + 1
        /\ schema = [v \in Versions |->
                        IF v \in {r.version : r \in AppliedUpTo(k)}
                        THEN "full" ELSE "none"]
        /\ commitLog = [i \in 1..k |-> TrimSuffix(FileName(i), SqlSuffix)]
    /\ pc = [p \in Procs |-> "idle"]
    /\ migrationFiles = [p \in Procs |-> <<>>]
    /\ appliedMigrations = [p \in Procs |-> <<>>]
    /\ idx = [p \in Procs |-> 0]
    /\ tx = [p \in Procs |-> NoTx]
    /\ lastMigration = [p \in Procs |-> 0]
    /\ result = [p \in Procs |-> NoResult]
    /\ statusResult = [p \in Procs |-> <<>>]
    /\ runLog = [p \in Procs |-> <<>>]
    /\ rollbackUsed = FALSE
    /\ migrateRuns = 0

\* several processes use the package on one database at the same time:
\* every failure is one that another process causes, and NumProcs + 1 calls
\* are made
InitConc ==
    /\ InitApplied
    /\ faults = MaxFaults
    /\ ops = MaxOps - NumProcs - 1

NextConc ==
    \/ \E p \in Procs : Migrate(p)
    \/ \E p \in Procs : LoopStep(p)
    \/ \E p \in Procs : ExecSQL(p)
    \/ \E p \in Procs : CreateRecord(p)
    \/ \E p \in Procs : Commit(p)
    \/ \E p \in Procs : RollbackLastMigration(p)
    \/ \E p \in Procs : RollbackDelete(p)

SpecConc == InitConc /\ [][NextConc]_vars

\* one process uses the package on a database behind a connection pooler
InitPooler ==
    /\ InitApplied
    /\ faults = 0
    /\ ops = 0

NextPooler ==
    \/ MigrateBehindPooler(1)
    \/ LoopStep(1)
    \/ ExecSQL(1)
    \/ CreateRecord(1)
    \/ Commit(1)

SpecPooler == InitPooler /\ [][NextPooler]_vars

(* ----------------- package database: the shared handle ------------------ *)

\* faulty variant of once.Do: the function runs in every call that does not
\* find it running
OnceDoEveryCall(o) == o # "running"

\* once.Do(f) runs f in the first call only
OnceDo(o) == o = "new"

\* what Connect returns: the handle is nil when gorm.Open fails
Connect(o) == IF o = "ok" THEN [db |-> "open", err |-> "nil"]
                          ELSE [db |-> "nil", err |-> "connect"]

\* InitializeDB(cfg) up to Connect: the first call enters once.Do and calls
\* Connect, a call made while the first is in Connect waits in once.Do, a
\* later call finds nothing to do and returns its own err, which is nil
InitializeDB(p) ==
    /\ pc[p] = "idle"
    /\ ops < MaxOps
    /\ ops' = ops + 1
    /\ IF OnceDo(once)
       THEN /\ once' = "running"
            /\ connects' = connects + 1
            /\ pc' = [pc EXCEPT ![p] = "connect"]
            /\ result' = [result EXCEPT ![p] = NoResult]
       ELSE IF once = "running"
       THEN /\ pc' = [pc EXCEPT ![p] = "blocked"]
            /\ result' = [result EXCEPT ![p] = NoResult]
            /\ UNCHANGED <<once, connects>>
       ELSE /\ result' = [result EXCEPT ![p] =
                            [op |-> "initialize", err |-> "nil", version |-> <<>>]]
            /\ UNCHANGED <<once, connects, pc>>
    /\ UNCHANGED <<fsVars, mainVars, validated, dbVars, loopVars, tx, lastMigration,
                   statusResult, histVars, db, storeVars>>

\* Connect returns inside once.Do: db and the caller's err are assigned, the
\* Once is done, InitializeDB returns err
ConnectReturns(p) ==
    /\ pc[p] = "connect"
    /\ \E o \in {"ok", "connect"} :
          /\ db' = Connect(o).db
          /\ result' = [result EXCEPT ![p] =
                          [op |-> "initialize", err |-> Connect(o).err,
                           version |-> <<>>]]
    /\ once' = "done"
    /\ pc' = [pc EXCEPT ![p] = "idle"]
    /\ UNCHANGED <<fsVars, mainVars, validated, dbVars, loopVars, tx, lastMigration,
                   statusResult, histVars, ops, connects, storeVars>>

\* a call that waited in once.Do goes on when the first call has left it:
\* its own err was never assigned, it returns nil
OnceReleases(p) ==
    /\ pc[p] = "blocked"
    /\ once = "done"
    /\ pc' = [pc EXCEPT ![p] = "idle"]
    /\ result' = [result EXCEPT ![p] =
                    [op |-> "initialize", err |-> "nil", version |-> <<>>]]
    /\ UNCHANGED <<fsVars, mainVars, validated, dbVars, loopVars, tx, lastMigration,
                   statusResult, histVars, ops, connVars, storeVars>>

\* HealthCheck(): an error when the handle is nil, otherwise the result of
\* the ping
HealthCheck(p) ==
    /\ pc[p] = "idle"
    /\ ops < MaxOps
    /\ ops' = ops + 1
    /\ \E o \in {"nil", "ping"} :
          result' = [result EXCEPT ![p] =
                       [op |-> "health",
                        err |-> IF db = "nil" THEN "notInitialized" ELSE o,
                        version |-> <<>>]]
    /\ UNCHANGED <<fsVars, mainVars, validated, dbVars, pc, loopVars, tx,
                   lastMigration, statusResult, histVars, svcVars>>

\* GetDB(): returns the handle, or log.Fatal when it is nil: the process
\* exits with status 1 and a new process starts with a new Once and no handle
GetDB(p) ==
    /\ pc[p] = "idle"
    /\ ops < MaxOps
    /\ ops' = ops + 1
    /\ IF db = "nil"
       THEN /\ lastExit' = [prog |-> "lib", action |-> "GetDB", status |-> 1,
                            out |-> "fatal"]
            /\ pc' = [q \in Procs |-> "idle"]
            /\ result' = [q \in Procs |-> NoResult]
            /\ once' = "new"
            /\ connects' = 0
            /\ UNCHANGED db
       ELSE /\ result' = [result EXCEPT ![p] =
                            [op |-> "getdb", err |-> "nil", version |-> <<>>]]
            /\ UNCHANGED <<lastExit, pc, connVars>>
    /\ UNCHANGED <<fsVars, main, validated, dbVars, loopVars, tx, lastMigration,
                   statusResult, histVars, storeVars>>

\* the package in a process that has not touched the migrations
InitConn ==
    /\ Init
    /\ dirState = "missing"
    /\ dirListing = SortStrings(dirListing)
    /\ onceOnly = {}

NextConn ==
    \E p \in Procs :
        \/ InitializeDB(p)
        \/ ConnectReturns(p)
        \/ OnceReleases(p)
        \/ HealthCheck(p)
        \/ GetDB(p)

SpecConn == InitConn /\ [][NextConn]_vars

(* ---------------------- BookService: books and ids ---------------------- *)

\* the ids whose row is not soft deleted
Live(table) == {i \in Ids : table[i] = "live"}

\* faulty variant of the count: soft-deleted rows are counted
CountUnscoped(table, id) ==
    IF id \in Ids /\ table[id] # "none" THEN 1 ELSE 0

\* db.Model(&T{}).Where("id = ?", id).Count(): T has a DeletedAt field, so
\* gorm counts the rows with deleted_at IS NULL only
Count(table, id) ==
    IF id \in Ids /\ table[id] = "live" THEN 1 ELSE 0

\* the foreign keys of table books: the rows referred to exist, soft
\* deleted or not
ForeignKeysHold(a, c) ==
    /\ a \in Ids /\ authors[a] # "none"
    /\ c \in Ids /\ categories[c] # "none"

\* the service call of process p returns err
ServiceReturn(p, err) ==
    /\ result' = [result EXCEPT ![p] =
                    [op |-> req[p].op, err |-> err, version |-> <<>>]]
    /\ pc' = [pc EXCEPT ![p] = "idle"]
    /\ req' = [req EXCEPT ![p] = NoRequest]

\* CreateBook(book) is called: validateAuthorAndCategory comes first
CreateBook(p) ==
    /\ pc[p] = "idle"
    /\ ops < MaxOps
    /\ ops' = ops + 1
    /\ \E a \in Ids, c \in Ids :
          req' = [req EXCEPT ![p] =
                    [NoRequest EXCEPT !.op = "create", !.author = a, !.category = c]]
    /\ pc' = [pc EXCEPT ![p] = "checkAuthor"]
    /\ result' = [result EXCEPT ![p] = NoResult]
    /\ UNCHANGED <<fsVars, mainVars, validated, dbVars, loopVars, tx, lastMigration,
                   statusResult, histVars, connVars, authors, categories, books>>

\* UpdateBook(id, updates) is called: when updates has an author or a
\* category id the book is fetched and the pair it would have is validated,
\* otherwise the update is written at once
UpdateBook(p) ==
    /\ pc[p] = "idle"
    /\ ops < MaxOps
    /\ ops' = ops + 1
    /\ \E b \in 1..(Len(books) + 1), a \in 0..NumIds, c \in 0..NumIds :
          LET r == [NoRequest EXCEPT !.op = "update", !.book = b,
                                     !.updAuthor = a, !.updCategory = c]
          IN  IF a = 0 /\ c = 0
              THEN /\ req' = [req EXCEPT ![p] = r]
                   /\ pc' = [pc EXCEPT ![p] = "write"]
                   /\ result' = [result EXCEPT ![p] = NoResult]
              ELSE IF b > Len(books)
              THEN /\ result' = [result EXCEPT ![p] =
                                   [op |-> "update", err |-> "book not found",
                                    version |-> <<>>]]
                   /\ UNCHANGED <<pc, req>>
              ELSE /\ req' = [req EXCEPT ![p] =
                               [r EXCEPT !.author = IF a # 0 THEN a
                                                    ELSE books[b].author,
                                         !.category = IF c # 0 THEN c
                                                      ELSE books[b].category]]
                   /\ pc' = [pc EXCEPT ![p] = "checkAuthor"]
                   /\ result' = [result EXCEPT ![p] = NoResult]
    /\ UNCHANGED <<fsVars, mainVars, validated, dbVars, loopVars, tx, lastMigration,
                   statusResult, histVars, connVars, authors, categories, books>>

\* validateAuthorAndCategory, first statement: the count of the author
CheckAuthor(p) ==
    /\ pc[p] = "checkAuthor"
    /\ IF Count(authors, req[p].author) = 0
       THEN ServiceReturn(p, "author not found")
       ELSE /\ pc' = [pc EXCEPT ![p] = "checkCategory"]
            /\ req' = [req EXCEPT ![p].seenAuthors = Live(authors)]
            /\ UNCHANGED result
    /\ UNCHANGED <<fsVars, mainVars, validated, dbVars, loopVars, tx, lastMigration,
                   statusResult, histVars, ops, connVars, authors, categories, books>>

\* validateAuthorAndCategory, second statement: the count of the category
CheckCategory(p) ==
    /\ pc[p] = "checkCategory"
    /\ IF Count(categories, req[p].category) = 0
       THEN ServiceReturn(p, "category not found")
       ELSE /\ pc' = [pc EXCEPT ![p] = "write"]
            /\ req' = [req EXCEPT ![p].seenCategories = Live(categories)]
            /\ UNCHANGED result
    /\ UNCHANGED <<fsVars, mainVars, validated, dbVars, loopVars, tx, lastMigration,
                   statusResult, histVars, ops, connVars, authors, categories, books>>

\* the row Updates(updates) leaves: the ids that updates has replace the
\* row's, the other columns change
Updated(row, r) ==
    [author |-> IF r.updAuthor # 0 THEN r.updAuthor ELSE row.author,
     category |-> IF r.updCategory # 0 THEN r.updCategory ELSE row.category,
     rev |-> row.rev + 1,
     liveAtWrite |-> /\ Count(authors, IF r.updAuthor # 0 THEN r.updAuthor
                                       ELSE row.author) = 1
                     /\ Count(categories, IF r.updCategory # 0 THEN r.updCategory
                                          ELSE row.category) = 1]

\* the last statement of CreateBook and of UpdateBook: db.Create(book), or
\* Updates(updates) on the row with the id
WriteBook(p) ==
    /\ pc[p] = "write"
    /\ IF req[p].op = "create"
       THEN \E o \in {"ok", "failed to create book"} :
              IF o = "ok" /\ ForeignKeysHold(req[p].author, req[p].category)
              THEN /\ books' = Append(books,
                                  [author |-> req[p].author,
                                   category |-> req[p].category,
                                   rev |-> 0,
                                   liveAtWrite |->
                                       /\ Count(authors, req[p].author) = 1
                                       /\ Count(categories, req[p].category) = 1])
                   /\ ServiceReturn(p, "nil")
              ELSE /\ ServiceReturn(p, "failed to create book")
                   /\ UNCHANGED books
       ELSE IF req[p].book > Len(books)
       THEN /\ ServiceReturn(p, "book not found")
            /\ UNCHANGED books
       ELSE IF ~ForeignKeysHold(Updated(books[req[p].book], req[p]).author,
                                Updated(books[req[p].book], req[p]).category)
       THEN /\ ServiceReturn(p, "failed to update book")
            /\ UNCHANGED books
       ELSE /\ books' = [books EXCEPT ![req[p].book] = Updated(@, req[p])]
            /\ ServiceReturn(p, "nil")
    /\ UNCHANGED <<fsVars, mainVars, validated, dbVars, loopVars, tx, lastMigration,
                   statusResult, histVars, ops, connVars, authors, categories>>

\* DeleteAuthor(id) on an author that is there: the row is soft deleted
DeleteAuthor(i) ==
    /\ authors[i] = "live"
    /\ authors' = [authors EXCEPT ![i] = "deleted"]
    /\ UNCHANGED <<fsVars, mainVars, validated, dbVars, pc, loopVars, tx,
                   lastMigration, result, statusResult, histVars, ops, connVars,
                   categories, books, req>>

\* DeleteCategory(id) on a category that is there: the row is soft deleted
DeleteCategory(i) ==
    /\ categories[i] = "live"
    /\ categories' = [categories EXCEPT ![i] = "deleted"]
    /\ UNCHANGED <<fsVars, mainVars, validated, dbVars, pc, loopVars, tx,
                   lastMigration, result, statusResult, histVars, ops, connVars,
                   authors, books, req>>

\* a store that is in use: the handle is open, every author and category
\* but the last id exists, one book refers to the first of each
InitStore ==
    /\ db = "open"
    /\ once = "done"
    /\ connects = 1
    /\ authors = [i \in Ids |-> IF i < NumIds THEN "live" ELSE "none"]
    /\ categories = [i \in Ids |-> IF i < NumIds THEN "live" ELSE "none"]
    /\ books = <<[author |-> 1, category |-> 1, rev |-> 0, liveAtWrite |-> TRUE]>>
    /\ req = [p \in Procs |-> NoRequest]
    /\ dirState = "missing"
    /\ dirListing \in Listings
    /\ dirListing = SortStrings(dirListing)
    /\ fileContent = [f \in AllNames |-> SqlText]
    /\ onceOnly = {}
    /\ edits = 0
    /\ main = LibMain
    /\ lastExit = NoExit
    /\ validated = FALSE
    /\ tableExists = FALSE
    /\ ledger = {}
    /\ nextId = 1
    /\ schema = [v \in Versions |-> "none"]
    /\ pc = [p \in Procs |-> "idle"]
    /\ migrationFiles = [p \in Procs |-> <<>>]
    /\ appliedMigrations = [p \in Procs |-> <<>>]
    /\ idx = [p \in Procs |-> 0]
    /\ tx = [p \in Procs |-> NoTx]
    /\ lastMigration = [p \in Procs |-> 0]
    /\ result = [p \in Procs |-> NoResult]
    /\ statusResult = [p \in Procs |-> <<>>]
    /\ runLog = [p \in Procs |-> <<>>]
    /\ commitLog = <<>>
    /\ rollbackUsed = FALSE
    /\ faults = 0
    /\ migrateRuns = 0
    /\ ops = MaxOps - 2

NextStore ==
    \/ \E p \in Procs :
          \/ CreateBook(p)
          \/ UpdateBook(p)
          \/ CheckAuthor(p)
          \/ CheckCategory(p)
          \/ WriteBook(p)
    \/ \E i \in Ids :
          \/ DeleteAuthor(i)
          \/ DeleteCategory(i)

SpecStore == InitStore /\ [][NextStore]_vars

TypeOK ==
    /\ dirState \in {"exists", "missing", "unreadable"}
    /\ tableExists \in BOOLEAN
    /\ \A r \in ledger : r.version \in Versions /\ r.id \in 1..(nextId - 1)
    /\ \A v \in Versions : schema[v] \in {"none", "partial", "full"}
    /\ \A p \in Procs : pc[p] \in {"idle", "loop", "exec", "create", "commit", "delete",
                                    "connect", "blocked",
                                    "checkAuthor", "checkCategory", "write"}
    /\ db \in {"nil", "open"}
    /\ once \in {"new", "running", "done"}
    /\ ops \in 0..MaxOps
    /\ faults \in 0..MaxFaults

(* ------------------------------- claims -------------------------------- *)

\* the versions of the files runSQLMigrations selects
SelectedVersions ==
    {TrimSuffix(f, SqlSuffix) : f \in {dirListing[i] : i \in 1..Len(dirListing)}
                                \cap SqlFiles}

\* number of times v occurs in the sequence s
Occurrences(s, v) == Cardinality({i \in 1..Len(s) : s[i] = v})

RowsOf(v) == {r \in ledger : r.version = v}

InTransaction(p) == pc[p] \in {"exec", "create", "commit"}

\* C1: when nothing fails and nothing is rolled back, once a first Migrate has
\* returned every selected file has been committed exactly once and has
\* exactly one ledger row, and any further Migrate run opens no transaction
\* (executes nothing, adds no row) and returns nil.
C1_IdempotentRerun ==
    (faults = 0 /\ ~rollbackUsed /\ dirState = "exists" /\ migrateRuns >= 1) =>
        /\ \A v \in SelectedVersions :
              Occurrences(commitLog, v) = 1 /\ Cardinality(RowsOf(v)) = 1
        /\ Cardinality(ledger) = Cardinality(SelectedVersions)
        /\ Len(commitLog) = Cardinality(SelectedVersions)
        /\ \A p \in Procs :
              /\ ~InTransaction(p)
              /\ runLog[p] # <<>> => migrateRuns = 1
              /\ (pc[p] = "idle" /\ result[p].op = "migrate") => result[p].err = "nil"

\* a second fault-free Migrate has returned with all files in the ledger
C1_Witness ==
    /\ faults = 0 /\ ~rollbackUsed /\ dirState = "exists" /\ migrateRuns >= 2
    /\ pc[1] = "idle" /\ result[1].op = "migrate" /\ result[1].err = "nil"
    /\ runLog[1] = <<>>
    /\ Cardinality(ledger) = NumFiles

\* executeMigration of process p returns an error for a failed tx.Exec or a
\* failed tx.Create in this step
ApplyFails(p) ==
    /\ pc[p] \in {"exec", "create"}
    /\ pc'[p] = "idle"
    /\ result'[p].err \in {"exec", "record"}

\* C2: when tx.Exec or tx.Create fails, the transaction is rolled back:
\* after executeMigration has returned the error the transaction is closed,
\* ledger and schema are as before, the ledger has no row of that version and
\* nothing of that file's schema change is visible.
C2_FailedApplyRolledBack ==
    [][\A p \in Procs : ApplyFails(p) =>
          /\ tx'[p] = NoTx
          /\ ledger' = ledger
          /\ schema' = schema
          /\ \A r \in ledger' : r.version # result'[p].version
          /\ schema'[result'[p].version] # "partial"
          /\ ~rollbackUsed => schema'[result'[p].version] = "none"]_vars

\* a Migrate run has applied a file and has then failed on the SQL of the next
C2_Witness ==
    /\ pc[1] = "idle" /\ result[1].op = "migrate" /\ result[1].err = "exec"
    /\ Len(runLog[1]) >= 2
    /\ ledger # {}
    /\ RowsOf(result[1].version) = {}

\* C3: while RollbackLastMigration has deleted no row, a version has a ledger
\* row exactly when its schema change is committed in full, and no schema
\* change is ever committed in part -- also after a failed commit.
C3_NeverHalfApplied ==
    ~rollbackUsed =>
        \A v \in Versions :
            schema[v] = IF RowsOf(v) # {} THEN "full" ELSE "none"

\* a commit has failed after an earlier file was applied
C3_Witness ==
    /\ ~rollbackUsed
    /\ ledger # {}
    /\ \E i \in 1..Len(runLog[1]) : runLog[1][i].outcome = "commit"

\* C4: within one Migrate run the files are applied in ascending bytewise
\* order of their version, whatever the order of the directory listing.
C4_AscendingOrder ==
    \A p \in Procs :
        /\ \A i, j \in 1..Len(runLog[p]) :
              i < j => LexLess(runLog[p][i].version, runLog[p][j].version)
        /\ InTransaction(p) =>
              \A i \in 1..Len(runLog[p]) : LexLess(runLog[p][i].version, CurVersion(p))

\* a run has applied every file of a listing that is not in ascending order
C4_Witness ==
    /\ FilterSQL(dirListing) # SortStrings(FilterSQL(dirListing))
    /\ Len(runLog[1]) = NumFiles
    /\ \A i \in 1..Len(runLog[1]) : runLog[1][i].outcome = "ok"

\* C5: when applying a file fails -- SQL error, ledger insert error, failed
\* commit or begin, or a panic during execution -- that file is the last one
\* the run attempts, and Migrate returns an error.
C5_StopAtFirstFailure ==
    \A p \in Procs : \A i \in 1..Len(runLog[p]) :
        runLog[p][i].outcome # "ok" =>
            /\ i = Len(runLog[p])
            /\ ~InTransaction(p)
            /\ (pc[p] = "idle" /\ result[p].op = "migrate") => result[p].err # "nil"

\* executeMigration returns from a panic of tx.Exec or tx.Create in this step
PanicStep(p) ==
    /\ Len(runLog'[p]) = Len(runLog[p]) + 1
    /\ runLog'[p][Len(runLog'[p])].outcome = "panic"

\* C6: a panic during tx.Exec or tx.Create rolls the transaction back
\* (neither schema change nor ledger row persists) and the apply is reported
\* as a failure: Migrate returns an error.
C6_PanicIsFailure ==
    [][\A p \in Procs : PanicStep(p) =>
          /\ tx'[p] = NoTx
          /\ ledger' = ledger
          /\ schema' = schema
          /\ runLog'[p][Len(runLog'[p])].returned = "err"
          /\ pc'[p] = "idle"
          /\ result'[p].err # "nil"]_vars

\* position of the last commit of version v
LastCommit(v) ==
    IF \E i \in 1..Len(commitLog) : commitLog[i] = v
    THEN CHOOSE i \in 1..Len(commitLog) :
            commitLog[i] = v /\ \A j \in (i + 1)..Len(commitLog) : commitLog[j] # v
    ELSE 0

\* the ledger rows of the version that was applied last
MostRecentRows ==
    {r \in ledger : \A q \in ledger : LastCommit(q.version) <= LastCommit(r.version)}

\* RollbackLastMigration of process p returns nil in this step
RollbackSucceeds(p) ==
    /\ pc[p] = "delete"
    /\ pc'[p] = "idle"
    /\ result'[p].err = "nil"

\* C7: a successful RollbackLastMigration removes exactly one ledger row, the
\* row of the version that was applied most recently.
C7_RollbackRemovesMostRecent ==
    [][\A p \in Procs : RollbackSucceeds(p) =>
          /\ Cardinality(ledger') = Cardinality(ledger) - 1
          /\ ledger' \subseteq ledger
          /\ ledger \ ledger' \subseteq MostRecentRows]_vars

\* process p starts RollbackLastMigration in this step and neither Connect
\* nor the query fails
RollbackStarts(p) ==
    /\ pc[p] = "idle"
    /\ ops' = ops + 1
    /\ faults' = faults
    /\ pc'[p] = "delete" \/ result'[p].op = "rollback"

\* C8: RollbackLastMigration on an existing migrations table without rows
\* returns "no migrations to rollback" and leaves ledger and schema unchanged.
C8_RollbackOnEmptyLedger ==
    [][\A p \in Procs : (RollbackStarts(p) /\ tableExists /\ ledger = {}) =>
          /\ pc'[p] = "idle"
          /\ result'[p] = [op |-> "rollback", err |-> "noMigrations", version |-> <<>>]
          /\ UNCHANGED <<tableExists, ledger, nextId, schema>>]_vars

\* a rollback has found the table empty
C8_Witness ==
    /\ pc[1] = "idle"
    /\ result[1].op = "rollback" /\ result[1].err = "noMigrations"
    /\ tableExists /\ ledger = {}

\* a step of RollbackLastMigration of process p
RollbackStep(p) ==
    \/ pc[p] = "delete"
    \/ pc[p] = "idle" /\ ops' = ops + 1 /\ (pc'[p] = "delete" \/ result'[p].op = "rollback")

\* C9: RollbackLastMigration changes nothing but the ledger row it has fetched:
\* the schema of every migration, the migrations table and every other ledger
\* row stay as they are.
C9_RollbackOnlyLedger ==
    [][\A p \in Procs : RollbackStep(p) =>
          /\ schema' = schema
          /\ tableExists' = tableExists
          /\ ledger' \subseteq ledger
          /\ \A r \in ledger \ ledger' : pc[p] = "delete" /\ r = lastMigration[p]]_vars

\* a rollback has removed one row of several and has left its schema in place
C9_Witness ==
    /\ pc[1] = "idle"
    /\ result[1].op = "rollback" /\ result[1].err = "nil"
    /\ RowsOf(result[1].version) = {}
    /\ schema[result[1].version] = "full"
    /\ Cardinality(ledger) >= 2

\* C10: the records GetMigrationStatus returns are exactly the ledger rows,
\* each once, one per version, in ascending order of applied_at.
C10_StatusIsLedger ==
    \A p \in Procs :
        (pc[p] = "idle" /\ result[p].op = "status" /\ result[p].err = "nil") =>
            LET s == statusResult[p]
            IN  /\ {s[i] : i \in 1..Len(s)} = ledger
                /\ Len(s) = Cardinality(ledger)
                /\ \A i, j \in 1..Len(s) : s[i].version = s[j].version => i = j
                /\ \A i, j \in 1..Len(s) :
                      i < j => ~LexLess(s[j].appliedAt, s[i].appliedAt)

\* status after every file was applied returns one record per file
C10_Witness ==
    /\ pc[1] = "idle"
    /\ result[1].op = "status" /\ result[1].err = "nil"
    /\ Len(statusResult[1]) = NumFiles
    /\ Cardinality(ledger) = NumFiles

\* C11: applied_at is a timestamp taken when the migration was committed: of
\* two ledger rows the one committed later has an applied_at that is not
\* smaller, and the rows in applied_at order are in the order of application.
C11_AppliedAtReflectsOrder ==
    /\ \A r, q \in ledger :
          LastCommit(r.version) < LastCommit(q.version) =>
              ~LexLess(q.appliedAt, r.appliedAt)
    /\ \A s \in OrderByAppliedAtAsc(ledger) :
          \A i, j \in 1..Len(s) :
              i < j => LastCommit(s[i].version) < LastCommit(s[j].version)

\* the files ValidateMigrations and runSQLMigrations select
SelectedFiles == {f \in AllNames : \E i \in 1..Len(FilterSQL(dirListing)) :
                                        FilterSQL(dirListing)[i] = f}

\* the file has no byte other than white space
Blank(f) == \A i \in 1..Len(fileContent[f]) : IsSpace(fileContent[f][i])

\* ValidateMigrations has returned and every file could be read
Validated(p) ==
    /\ pc[p] = "idle"
    /\ result[p].op = "validate"
    /\ result[p].err \in {"nil", "empty"}
    /\ dirState = "exists"

C13_ValidationPrecedes ==
    /\ (ledger # {} \/ \E p \in Procs : InTransaction(p)) => validated
    /\ (\E f \in SelectedFiles : Blank(f)) =>
            (ledger = {} /\ \A p \in Procs : ~InTransaction(p))

\* C14: when the migrations directory does not exist, Migrate (database
\* reachable) returns nil with the migrations table created and no row in it
\* and no transaction is ever opened, ValidateMigrations returns nil, and
\* GetMigrationStatus on the created table returns the empty list.
C14_MissingDirectory ==
    dirState = "missing" =>
        /\ ledger = {} /\ commitLog = <<>>
        /\ \A p \in Procs :
              /\ ~InTransaction(p)
              /\ pc[p] = "idle" /\ result[p].op = "migrate"
                    /\ result[p].err \notin {"connect", "createTable"} =>
                        result[p].err = "nil" /\ tableExists
              /\ result[p].op = "validate" => result[p].err = "nil"
              /\ result[p].op = "status"
                    /\ result[p].err \notin {"connect", "statusQuery"} =>
                        result[p].err = "nil" /\ statusResult[p] = <<>>
              /\ result[p].op = "status" /\ tableExists /\ faults = 0 =>
                        result[p].err = "nil"

\* the server has validated, migrated and read the status without a
\* migrations directory
C14_Witness ==
    /\ dirState = "missing"
    /\ main = [prog |-> "server", call |-> "status"]
    /\ validated /\ migrateRuns = 1 /\ tableExists /\ faults = 0
    /\ result[1].op = "status" /\ result[1].err = "nil"
    /\ statusResult[1] = <<>>

\* executeMigration of process p returns in this step
AttemptEnds(p) == Len(runLog'[p]) = Len(runLog[p]) + 1

\* the loop of process p opens the transaction of a file in this step
AttemptBegins(p) == pc[p] = "loop" /\ pc'[p] = "exec"

\* C15: a failed application leaves no trace in the ledger: the version has
\* no row and its file is still selected, so it is pending.  Every run
\* attempts the pending versions in ascending order without leaving one
\* out: when a run opens the transaction of version v, v has no row and
\* every selected version smaller than v has a row or was attempted earlier
\* in this run.  When the application succeeds the version has a row.
C15_FailedStaysPending ==
    [][\A p \in Procs :
        /\ AttemptEnds(p) =>
              LET e == runLog'[p][Len(runLog'[p])]
              IN  /\ e.outcome # "ok" =>
                        /\ \A r \in ledger' : r.version # e.version
                        /\ e.version \in SelectedVersions
                  /\ e.outcome = "ok" =>
                        /\ \E r \in ledger' : r.version = e.version
                        /\ schema'[e.version] = "full"
        /\ AttemptBegins(p) =>
              /\ \A r \in ledger : r.version # CurVersion(p)'
              /\ \A w \in SelectedVersions :
                    LexLess(w, CurVersion(p)') =>
                        \/ \E r \in ledger : r.version = w
                        \/ \E i \in 1..Len(runLog[p]) : runLog[p][i].version = w]_vars

\* a run has failed on a version after applying an earlier one, and the
\* next run has started with that version and has applied it and the rest
C15_Witness ==
    /\ migrateRuns = 2 /\ faults = 1 /\ ~rollbackUsed
    /\ pc[1] = "idle" /\ result[1].op = "migrate" /\ result[1].err = "nil"
    /\ Len(runLog[1]) \in 1..(NumFiles - 1)
    /\ \A i \in 1..Len(runLog[1]) : runLog[1][i].outcome = "ok"
    /\ Cardinality(ledger) = NumFiles

\* C16: whatever the processes do and however their calls of Migrate and
\* RollbackLastMigration interleave, no two ledger rows have the same version.
C16_LedgerUnique ==
    \A v \in Versions : Cardinality(RowsOf(v)) <= 1

\* one process is about to delete the row it has chosen while another has
\* inserted a row in its open transaction
C16_Witness ==
    /\ pc[1] = "delete"
    /\ pc[2] = "commit"
    /\ tx[2].rows # {}
    /\ ledger # {}

\* process p inserts the ledger row of a version that another process has
\* committed since p read the applied versions
LosesRace(p) ==
    /\ pc[p] = "create"
    /\ pc'[p] # "create"
    /\ UniqueViolation(ledger, CurVersion(p))

\* C17: when two Migrate runs race on a pending file, at most one
\* transaction of that version commits (no version is committed twice unless
\* a row was rolled back in between).  The insert of the process that comes
\* second fails on the unique index: its transaction is closed with nothing
\* of it visible (ledger and schema unchanged), and its Migrate returns that
\* error at once instead of going on to the next file.
C17_RaceLoserFails ==
    [][/\ ~rollbackUsed' =>
              \A v \in Versions : Occurrences(commitLog', v) <= 1
       /\ \A p \in Procs : LosesRace(p) =>
              /\ tx'[p] = NoTx
              /\ ledger' = ledger
              /\ schema' = schema
              /\ commitLog' = commitLog
              /\ pc'[p] = "idle"
              /\ result'[p].op = "migrate"
              /\ result'[p].err = "record"
              /\ result'[p].version = CurVersion(p)]_vars

\* two runs have raced on a file: one has committed it, the other has
\* returned the error of the insert
C17_Witness ==
    /\ ~rollbackUsed
    /\ pc[2] = "idle" /\ result[2].op = "migrate" /\ result[2].err = "record"
    /\ Cardinality(RowsOf(result[2].version)) = 1
    /\ Occurrences(commitLog, result[2].version) = 1
    /\ runLog[1] # <<>>

\* process p runs the SQL of a file whose schema objects exist already, and
\* nothing else fails in this step
ReExecutes(p) ==
    /\ pc[p] = "exec"
    /\ pc'[p] # "exec"
    /\ schema[CurVersion(p)] = "full"
    /\ faults' = faults

\* C18: when RollbackLastMigration has removed the row of version V, V has no
\* row while its file is still there (pending), and its schema objects are
\* still there.  A Migrate run opens transactions only for files without a
\* ledger row.  When it runs V's file again on the existing objects, SQL
\* that can be repeated succeeds and the run goes on to record V again, and
\* SQL that cannot be repeated fails: Migrate returns the error and V still
\* has no row.
C18_ReapplyAfterRollback ==
    [][\A p \in Procs :
        /\ RollbackSucceeds(p) =>
              /\ \A r \in ledger' : r.version # result'[p].version
              /\ result'[p].version \in SelectedVersions
              /\ schema'[result'[p].version] = "full"
        /\ AttemptBegins(p) => \A r \in ledger : r.version # CurVersion(p)'
        /\ ReExecutes(p) =>
              IF CurVersion(p) \in onceOnly
              THEN /\ pc'[p] = "idle"
                   /\ result'[p].op = "migrate" /\ result'[p].err = "exec"
                   /\ result'[p].version = CurVersion(p)
                   /\ ledger' = ledger /\ schema' = schema
                   /\ RowsOf(CurVersion(p)) = {}
              ELSE pc'[p] = "create"
        /\ AttemptEnds(p) /\ runLog'[p][Len(runLog'[p])].outcome = "ok" =>
              \E r \in ledger' : r.version = runLog'[p][Len(runLog'[p])].version]_vars

\* a version was applied, rolled back and applied again by the next run,
\* which executed no other file
C18_Witness ==
    /\ rollbackUsed /\ faults = 0 /\ onceOnly = {}
    /\ pc[1] = "idle" /\ result[1].op = "migrate" /\ result[1].err = "nil"
    /\ Len(runLog[1]) = 1
    /\ Occurrences(commitLog, runLog[1][1].version) = 2
    /\ RowsOf(runLog[1][1].version) # {}
    /\ Cardinality(ledger) = NumFiles

\* the next run after a rollback has failed on SQL that cannot be repeated
C18_FailsOnExistingObject ==
    /\ rollbackUsed /\ faults = 0 /\ onceOnly # {}
    /\ pc[1] = "idle" /\ result[1].op = "migrate" /\ result[1].err = "exec"
    /\ RowsOf(result[1].version) = {}

\* the CLI ends in this step after the call of its action has returned
CliEnds == main.prog = "cli" /\ main' = Shell

\* the CLI is started with an action that is none of the four
CliUnknownAction == main = Shell /\ lastExit'.out = "Unknown action"

\* what the CLI prints when its action succeeded
Confirmations ==
    {"Migrations completed successfully", "Rollback completed successfully",
     "All migration files are valid", "No migrations applied",
     "Applied migrations"}

\* C19: the CLI ends with exit status 1 when the function of its action
\* returned an error -- "no migrations to rollback" included -- and with
\* exit status 0 and a confirmation on its output when it returned nil; with
\* an unknown action it exits with status 1 and has called nothing: no
\* operation was started and the database is unchanged.
C19_CliExitStatus ==
    [][/\ CliEnds =>
              /\ lastExit'.prog = "cli"
              /\ lastExit'.action = main.call
              /\ main.call \in {"migrate", "status", "rollback", "validate"}
              /\ result[1].op = main.call
              /\ result[1].err # "nil" =>
                    lastExit'.status = 1 /\ lastExit'.out \notin Confirmations
              /\ result[1].err = "nil" =>
                    lastExit'.status = 0 /\ lastExit'.out \in Confirmations
       /\ CliUnknownAction =>
              /\ lastExit'.status = 1
              /\ lastExit'.action \notin {"migrate", "status", "rollback", "validate"}
              /\ main' = Shell
              /\ ops' = ops
              /\ UNCHANGED <<dbVars, tx, pc, commitLog>>]_vars

\* the CLI has exited with status 1 after a rollback on a migrations table
\* without rows
C19_Witness ==
    /\ lastExit.prog = "cli" /\ lastExit.action = "rollback"
    /\ lastExit.status = 1
    /\ main = Shell
    /\ faults = 0 /\ tableExists /\ ledger = {} /\ ~rollbackUsed

\* the loop of process p has passed the last file and Migrate returns nil
RunCompletes(p) ==
    /\ pc[p] = "loop"
    /\ pc'[p] = "idle"
    /\ result'[p].err = "nil"

\* the versions process p has attempted in its run
Attempted(p) == {runLog[p][i].version : i \in 1..Len(runLog[p])}

\* the versions process p has applied in its run
AppliedInRun(p) ==
    {runLog[p][i].version : i \in {j \in 1..Len(runLog[p]) : runLog[p][j].outcome = "ok"}}

\* C20: a Migrate run attempts exactly the selected files whose name without
\* ".sql" is the version of no ledger row: it opens a transaction for such
\* files only, and when it has passed the last file the versions it has
\* attempted are the versions of the selected files less the versions the
\* ledger held when it started -- also when such a file sorts before applied
\* versions.  A ledger row whose file is gone is left as it is and the run
\* returns nil.
C20_PendingIsSetDifference ==
    [][\A p \in Procs :
        /\ AttemptBegins(p) =>
              /\ CurVersion(p)' \in SelectedVersions
              /\ \A r \in ledger : r.version # CurVersion(p)'
        /\ RunCompletes(p) =>
              /\ Attempted(p) =
                    SelectedVersions \ ({r.version : r \in ledger} \ AppliedInRun(p))
              /\ ledger' = ledger
        /\ {r \in ledger : r.version \notin SelectedVersions} \subseteq ledger']_vars

\* a run has applied exactly one file, whose version is smaller than an
\* applied one, while the ledger holds a row whose file is gone
C20_Witness ==
    /\ pc[1] = "idle" /\ result[1].op = "migrate" /\ result[1].err = "nil"
    /\ Len(runLog[1]) = 1 /\ runLog[1][1].outcome = "ok"
    /\ \E r \in ledger : LexLess(runLog[1][1].version, r.version)
                          /\ LastCommit(r.version) < LastCommit(runLog[1][1].version)
    /\ \E r \in ledger : r.version \notin SelectedVersions

\* the directory entries
Entries == {dirListing[i] : i \in 1..Len(dirListing)}

\* the entries whose name ends in ".sql" and does not start with "."
SelectedByName ==
    {f \in Entries :
        /\ Len(f) >= 4 /\ SubSeq(f, Len(f) - 3, Len(f)) = <<46, 115, 113, 108>>
        /\ f[1] # 46}

\* C21: Migrate walks exactly the directory entries whose name ends in
\* ".sql" and does not start with ".", each once, and opens transactions for
\* such entries only; ValidateMigrations looks at the content of exactly
\* these entries: it reports an entry as empty exactly when one of them is
\* empty, so an empty README.md, ".keep.sql" or ".sql" is not reported.
C21_FileSelection ==
    \A p \in Procs :
        /\ pc[p] \in {"loop", "exec", "create", "commit"} =>
              /\ {migrationFiles[p][i] : i \in 1..Len(migrationFiles[p])} = SelectedByName
              /\ Len(migrationFiles[p]) = Cardinality(SelectedByName)
        /\ InTransaction(p) => migrationFiles[p][idx[p]] \in SelectedByName
        /\ \A i \in 1..Len(runLog[p]) :
              runLog[p][i].version \o SqlSuffix \in SelectedByName
        /\ Validated(p) =>
              /\ result[p].err = "empty" <=> \E f \in SelectedByName : Blank(f)
              /\ result[p].err = "empty" => result[p].version \in SelectedByName

\* the server has validated and applies a file although the hidden ".sql"
\* entry of the directory is empty
C21_Witness ==
    /\ validated
    /\ \E f \in Entries \ SelectedByName : HasSuffix(f, SqlSuffix) /\ Blank(f)
    /\ InTransaction(1)
    /\ Entries \ SelectedByName = {HiddenName, BareSuffixName, ReadmeName}

\* process p calls Migrate in this step
MigrateIsCalled(p) ==
    /\ pc[p] = "idle"
    /\ ops' = ops + 1
    /\ pc'[p] = "loop" \/ (result'[p].op = "migrate" /\ migrateRuns' = migrateRuns + 1)

\* C22: unless Connect fails, Migrate runs createMigrationTable before
\* anything else.  When the creation fails Migrate returns that error at
\* once: no file is looked at, no transaction is opened, ledger and schema
\* are unchanged.  Otherwise the table exists from then on -- before the
\* applied versions are read and whenever a transaction is open -- and the
\* rows of a ledger that existed already are all kept.
C22_TableCreatedFirst ==
    [][\A p \in Procs :
        /\ MigrateIsCalled(p) =>
              /\ ledger' = ledger /\ schema' = schema
              /\ tableExists => tableExists'
              /\ result'[p].err = "createTable" =>
                    /\ pc'[p] = "idle"
                    /\ tx'[p] = NoTx
                    /\ tableExists' = tableExists
                    /\ migrationFiles'[p] = <<>> /\ runLog'[p] = <<>>
              /\ (pc'[p] = "loop" \/ result'[p].err \notin {"connect", "createTable"}) =>
                    tableExists'
        /\ pc'[p] \in {"loop", "exec", "create", "commit"} => tableExists']_vars

\* a first Migrate has applied every file and the second has failed on the
\* creation of the table
C22_Witness ==
    /\ migrateRuns = 2
    /\ pc[1] = "idle" /\ result[1].op = "migrate" /\ result[1].err = "createTable"
    /\ Cardinality(ledger) = NumFiles
    /\ tableExists

\* the query of process p for the applied versions fails in this step
\* although the migrations table exists
AppliedQueryFails(p) ==
    /\ MigrateIsCalled(p)
    /\ dirState = "exists"
    /\ faults' = faults + 1
    /\ tableExists'
    /\ result'[p].err \notin {"connect", "createTable"}

\* C23: getAppliedMigrations answers a missing migrations table with the
\* empty list and no error; when its query fails for any other reason,
\* Migrate returns an error and no file is looked at.
C23_OnlyMissingTableIsEmpty ==
    [][/\ getAppliedMigrations(FALSE, ledger, NoError) = [err |-> "nil", versions |-> <<>>]
       /\ \A p \in Procs : AppliedQueryFails(p) =>
              /\ pc'[p] = "idle"
              /\ result'[p].op = "migrate" /\ result'[p].err # "nil"
              /\ migrationFiles'[p] = <<>>]_vars

\* C24: while the migrations directory exists but cannot be read, Migrate
\* (database reachable) and ValidateMigrations return the error of ReadDir,
\* the validation never succeeds, no file is walked, no transaction is
\* opened and the ledger stays empty; a directory that does not exist is the
\* only one both answer with nil without reading anything.
C24_UnreadableDirectory ==
    /\ dirState = "unreadable" =>
          /\ ledger = {} /\ commitLog = <<>> /\ ~validated
          /\ \A p \in Procs :
                /\ pc[p] \notin {"loop", "exec", "create", "commit"}
                /\ runLog[p] = <<>>
                /\ result[p].op = "validate" => result[p].err = "readDir"
                /\ result[p].op = "migrate" /\ result[p].err \notin {"connect", "createTable"}
                      => result[p].err = "readDir"
    /\ \A p \in Procs :
          /\ result[p].op \in {"validate", "migrate"} /\ result[p].err = "readDir"
                => dirState = "unreadable"
          /\ result[p].op = "validate" /\ dirState = "missing" => result[p].err = "nil"

\* the CLI's migrate has created the table and has failed on a directory
\* that cannot be read
C24_Witness ==
    /\ dirState = "unreadable"
    /\ main = [prog |-> "cli", call |-> "migrate"]
    /\ pc[1] = "idle" /\ result[1].op = "migrate" /\ result[1].err = "readDir"
    /\ tableExists /\ ledger = {}

\* the server's main takes a step after one of its calls has returned
ServerMoves == main.prog = "server" /\ main' # main

\* C25: the server's main calls ValidateMigrations, then Migrate, then
\* GetMigrationStatus, and starts the HTTP and gRPC servers after that: it
\* goes from one call to the next only when the call returned nil, it ends
\* with exit status 1 and no server started when ValidateMigrations or
\* Migrate returned an error, and after GetMigrationStatus it starts the
\* servers whether the status query returned an error or not.  The server
\* calls Migrate only while it is at that call, after its validation.
C25_ServerStartupOrder ==
    [][/\ ServerMoves =>
              /\ pc[1] = "idle" /\ result[1].op = main.call
              /\ main.call \in {"validate", "migrate"} /\ result[1].err # "nil" =>
                    /\ main' = Shell
                    /\ lastExit'.status = 1 /\ lastExit'.out = "fatal"
              /\ main.call = "validate" /\ result[1].err = "nil" =>
                    main' = [prog |-> "server", call |-> "migrate"]
              /\ main.call = "migrate" /\ result[1].err = "nil" =>
                    main' = [prog |-> "server", call |-> "status"]
              /\ main.call = "status" =>
                    /\ main' = Shell
                    /\ lastExit'.status = 0 /\ lastExit'.out = "serving"
              /\ lastExit'.out = "serving" => main.call = "status"
       /\ main.prog = "server" /\ MigrateIsCalled(1) => main.call = "migrate"
       /\ main'.prog = "server" =>
              /\ main'.call \in {"validate", "migrate", "status"}
              /\ main.prog = "shell" => main'.call = "validate"]_vars

\* the server serves after it has validated and applied every file and its
\* status query has failed
C25_Witness ==
    /\ main = Shell
    /\ lastExit = [prog |-> "server", action |-> "serve", status |-> 0, out |-> "serving"]
    /\ faults = 1 /\ validated /\ migrateRuns = 1
    /\ Cardinality(ledger) = NumFiles
    /\ ops = 3

\* C26: with one process, a fixed set of files and no failure other than
\* SQL that fails, after any sequence of Migrate and RollbackLastMigration
\* calls the versions in the ledger are the first versions of the sorted
\* file list: no version without a row is smaller than a version with a row.
C26_LedgerIsPrefix ==
    (faults = 0 /\ dirState = "exists") =>
        \A v, w \in SelectedVersions :
            (LexLess(v, w) /\ RowsOf(w) # {}) => RowsOf(v) # {}

\* process p calls op in this step and op returns in it
Returns(p, op) ==
    /\ pc[p] = "idle"
    /\ ops' = ops + 1
    /\ pc'[p] = "idle"
    /\ result'[p].op = op

\* process p calls RollbackLastMigration in this step
RollbackIsCalled(p) ==
    /\ pc[p] = "idle"
    /\ ops' = ops + 1
    /\ pc'[p] = "delete" \/ result'[p].op = "rollback"

\* C27: GetMigrationStatus and ValidateMigrations leave the ledger, the
\* schema, the migrations table and every transaction as they are, and the
\* result of ValidateMigrations is never an error of the database.  Neither
\* GetMigrationStatus nor RollbackLastMigration creates the migrations
\* table: without the table GetMigrationStatus returns an error, not an
\* empty list, and RollbackLastMigration returns an error that is not "no
\* migrations to rollback" and deletes nothing.
C27_ReadOnlyOperations ==
    [][\A p \in Procs :
        /\ Returns(p, "validate") =>
              /\ UNCHANGED <<dbVars, tx, commitLog>>
              /\ result'[p].err \in {"nil", "empty", "readDir", "readFile"}
        /\ Returns(p, "status") =>
              /\ UNCHANGED <<dbVars, tx, commitLog>>
              /\ ~tableExists => result'[p].err \notin {"nil", "noMigrations"}
              /\ result'[p].err # "nil" => statusResult'[p] = <<>>
        /\ RollbackIsCalled(p) =>
              /\ UNCHANGED <<dbVars, tx, commitLog>>
              /\ ~tableExists =>
                    /\ pc'[p] = "idle"
                    /\ result'[p].err \notin {"nil", "noMigrations"}]_vars

\* on a database on which Migrate has never run and nothing else fails,
\* RollbackLastMigration has returned the error of its query
C27_Witness ==
    /\ ~tableExists /\ migrateRuns = 0 /\ faults = 0
    /\ pc[1] = "idle"
    /\ result[1].op = "rollback" /\ result[1].err = "lastQuery"

\* the versions of the executeMigration calls process p has made in its run
AttemptedVersions(p) == {runLog[p][i].version : i \in 1..Len(runLog[p])}

\* a Migrate call of process p returns nil in this step
MigrateSucceeds(p) ==
    /\ result'[p] # result[p] \/ migrateRuns' # migrateRuns
    /\ pc'[p] = "idle"
    /\ result'[p].op = "migrate" /\ result'[p].err = "nil"

\* a Migrate call that is under way returns
C28_Terminates == (pc[1] \in {"loop", "exec", "create", "commit"}) ~> (pc[1] = "idle")

\* a run opens a transaction only for a selected file that was pending when
\* the run started and that the run has not attempted before, and the
\* position in the file list never moves back
C28_AtMostOnce ==
    [][\A p \in Procs :
        /\ AttemptBegins(p) =>
              /\ CurVersion(p) \in SelectedVersions
              /\ ~contains(appliedMigrations[p], CurVersion(p))
              /\ CurVersion(p) \notin AttemptedVersions(p)
              /\ ~tx[p].open
        /\ (pc[p] # "idle" /\ pc'[p] # "idle") => idx'[p] >= idx[p]
        /\ Len(runLog'[p]) <= Cardinality(SelectedVersions)]_vars

\* C28: a Migrate run terminates, attempts each selected file at most once,
\* opens at most one transaction per pending file, and when it returns nil
\* every file selected from the migrations directory has a row in the ledger.
C28_TerminatesWithAllApplied ==
    /\ C28_Terminates
    /\ C28_AtMostOnce
    /\ [][\A p \in Procs : (MigrateSucceeds(p) /\ dirState = "exists") =>
              \A v \in SelectedVersions : \E r \in ledger' : r.version = v]_vars

\* a call of op returns to process p in this step with a result that is not
\* the one p had
Receives(p, op) == result'[p] # result[p] /\ result'[p].op = op

\* C29: Connect is called at most once in a process, however many calls of
\* InitializeDB there are and however they overlap.  Once the first Connect
\* has failed no step calls Connect or assigns the handle, and an
\* InitializeDB call that returns then -- one made later or one that waited
\* while Connect ran -- returns nil.  While the handle is nil HealthCheck
\* returns an error and GetDB returns nothing.
C29_ConnectOnce ==
    /\ [](connects <= 1)
    /\ [][(once = "done" /\ db = "nil") =>
             /\ db' = "nil"
             /\ connects' <= connects
             /\ \A p \in Procs :
                   Receives(p, "initialize") => result'[p].err = "nil"]_vars
    /\ [][\A p \in Procs :
             /\ (db = "nil" /\ Receives(p, "health")) =>
                   result'[p].err = "notInitialized"
             /\ db = "nil" => result'[p].op # "getdb"]_vars

\* Connect has failed for process 2; after that InitializeDB has returned
\* nil to process 1 and HealthCheck an error to process 2
C29_Witness ==
    /\ connects = 1 /\ once = "done" /\ db = "nil"
    /\ result[1].op = "initialize" /\ result[1].err = "nil"
    /\ result[2].op = "health" /\ result[2].err = "notInitialized"

\* process p leaves the statement at position at in this step
Leaves(p, at) == pc[p] = at /\ pc'[p] # at

\* C30: CreateBook inserts a row only after it has found the author and
\* then the category not deleted, each at the time of its count; when a
\* count finds none the call returns 'author not found' or 'category not
\* found' and the table is unchanged.  UpdateBook, when the update has an
\* author or a category id, makes the same two counts for the pair the book
\* would have and changes the row only after both succeeded; an UpdateBook
\* or CreateBook that returns an error leaves every row as it was.
C30_ForeignKeyPrecheck ==
    [][/\ \A p \in Procs :
            /\ Leaves(p, "checkAuthor") =>
                  IF req[p].author \in Live(authors)
                  THEN pc'[p] = "checkCategory" /\ books' = books
                  ELSE /\ pc'[p] = "idle" /\ books' = books
                       /\ result'[p].op = req[p].op
                       /\ result'[p].err = "author not found"
            /\ Leaves(p, "checkCategory") =>
                  IF req[p].category \in Live(categories)
                  THEN pc'[p] = "write" /\ books' = books
                  ELSE /\ pc'[p] = "idle" /\ books' = books
                       /\ result'[p].op = req[p].op
                       /\ result'[p].err = "category not found"
            /\ (pc[p] = "idle" /\ pc'[p] = "write") =>
                  /\ req'[p].op = "update"
                  /\ req'[p].updAuthor = 0 /\ req'[p].updCategory = 0
            /\ (Receives(p, "create") \/ Receives(p, "update")) =>
                  (result'[p].err # "nil" => books' = books)
       /\ Len(books') # Len(books) =>
            \E p \in Procs :
                /\ Leaves(p, "write") /\ req[p].op = "create"
                /\ req[p].author \in req[p].seenAuthors
                /\ req[p].category \in req[p].seenCategories
                /\ Len(books') = Len(books) + 1
                /\ books'[Len(books')].author = req[p].author
                /\ books'[Len(books')].category = req[p].category
                /\ \A b \in 1..Len(books) : books'[b] = books[b]
       /\ \A b \in 1..Len(books) :
            (Len(books') = Len(books) /\ books'[b] # books[b]) =>
                \E p \in Procs :
                    /\ Leaves(p, "write") /\ req[p].op = "update" /\ req[p].book = b
                    /\ result'[p].err = "nil"
                    /\ (req[p].updAuthor # 0 \/ req[p].updCategory # 0) =>
                          /\ req[p].author \in req[p].seenAuthors
                          /\ req[p].category \in req[p].seenCategories]_vars

\* CreateBook has returned nil for a row whose author or category was soft
\* deleted between the count and the insert
C30_Witness ==
    /\ Len(books) > 1
    /\ books[Len(books)].rev = 0
    /\ ~books[Len(books)].liveAtWrite
    /\ \E p \in Procs : result[p].op = "create" /\ result[p].err = "nil"

\* UpdateBook has returned 'author not found' and the book is as it was
C30_UpdateRefused ==
    /\ \E p \in Procs : result[p].op = "update" /\ result[p].err = "author not found"
    /\ books[1].rev = 0

====
